---- MODULE Spec2Model ----
(***************************************************************************)
(* Order import and refund reconciliation of odoo_shopify_automation       *)
(* (models/shopify_order.py, models/sale_order.py, models/shopify_refund). *)
(*                                                                         *)
(* Money is exact: every amount is an integer number of 1/Den cents, where *)
(* Den is a common multiple of every quantity of the model, so that the    *)
(* code's single division by a quantity (subtotal / qty, discount / qty)   *)
(* is exact.  The code computes in binary floating point; its results      *)
(* differ from the exact ones by less than 1e-9 cent.                      *)
(***************************************************************************)
EXTENDS Integers, Sequences, FiniteSets, TLC

\* ------------------------------------------------------------------ bounds
MaxRemote == 2            \* the remote holds orders 1..n, n <= MaxRemote
MaxPaged == 3             \* the same, where the pagination is studied
MaxRuns == 2              \* import runs per behaviour
NInst == 1                \* connected instances 1..NInst
MaxQty == 2               \* largest quantity of a line item or refund line
PageLimit == 2            \* stands for the page size limit=250 of one request
MaxLocal == 1             \* orders created in Odoo
MaxEvents == 1            \* refunds issued from Odoo
MaxProductImports == 3    \* calls of the product import per behaviour
NJobs == 2                \* import jobs that can run side by side
MaxJobRuns == 2           \* imports each of them starts per behaviour

Instances == 1..NInst

Jobs == 1..NJobs

\* the identifiers the remote gives to its orders
RemoteIds == 1..(MaxRemote + MaxPaged)

RECURSIVE Fact(_)
Fact(n) == IF n <= 1 THEN 1 ELSE n * Fact(n - 1)
Den == Fact(MaxQty)       \* money unit: 1/Den cent
Cent == Den

\* ------------------------------------------------------------------ helpers
RECURSIVE SumSeq(_)
SumSeq(s) == IF s = <<>> THEN 0 ELSE Head(s) + SumSeq(Tail(s))

Abs(x) == IF x < 0 THEN -x ELSE x

Min(a, b) == IF a < b THEN a ELSE b

\* recordset.search(domain, limit=1) over the records by id: the first of
\* the matching ids S, or 0
FirstIdx(S) == IF S = {} THEN 0 ELSE CHOOSE i \in S : \A j \in S : i <= j

\* ------------------------------------------------------------------ state
VARIABLES
  orders,     \* sale.order records, by id (position)
  mappings,   \* shopify.order records
  moves,      \* account.move credit notes (move_type out_refund)
  rmaps,      \* shopify.refund records
  jobs,       \* shopify.queue.job status, one per import run
  run,        \* the import run in progress (locals of import_orders_from_shopify)
  events,     \* number of refunds issued through process_refund_in_shopify
  rejected,   \* keys (external id, instance) of the mapping creates and writes
              \* that the unique constraint has rejected
  products,   \* product.product records the import has created: name, default_code
  partners,   \* res.partner records: name, email
  pmaps,      \* shopify.product records (variant mappings)
  templates,  \* product.template records the product import has created
  variants,   \* product.product records of those templates
  pimport,    \* the last call of import_products_from_shopify: instance, payloads, failures
  txs,        \* the import jobs running side by side, each in a transaction of its own
  issued      \* the last call of process_refund_in_shopify and what it returned

\* the state of the product import
catalog == <<pmaps, templates, variants, pimport>>

vars == <<orders, mappings, moves, rmaps, jobs, run, events, rejected, products,
          partners, pmaps, templates, variants, pimport, txs,
          issued>>

\* ------------------------------------------------------------------ payloads
BadPrice == -1            \* a price float() cannot parse (ValueError/TypeError)

\* the value of 'sku' in a line item that has no such key, and in one whose
\* 'sku' is null
NoSkuKey == "(no key)"
NullSku == "(null)"
NullName == "(null name)"
NoNameKey == "(no name)"

\* line_items[]: name, sku, quantity, price, the amounts of
\* discount_allocations (BadPrice: an amount float() rejects); no line item
\* has a product mapping
ItemA == [name |-> "A", sku |-> "A", qty |-> 2, price |-> 10, allocs |-> <<2>>]
ItemB == [name |-> "B", sku |-> "B", qty |-> 1, price |-> 7, allocs |-> <<>>]
ItemBad == [name |-> "B", sku |-> "B", qty |-> 1, price |-> BadPrice, allocs |-> <<>>]

\* the service products of _get_shipping_product, _get_discount_product and
\* _get_refund_product, and the product of the lines of an order entered
\* in Odoo; the products the import creates are numbered from 1
ShippingProduct == -1
DiscountProduct == -2
RefundProduct == -3
LocalProduct == -4

\* remote order payloads with identifier id.  named: the payload has a
\* 'name' or an 'order_number'; ship: prices of shipping_lines; disc:
\* total_discounts; cancelled: cancelled_at is set; refunds: refunds[];
\* gateways: payment_gateway_names; txgw: the 'gateway' of each of
\* transactions[] ("": the transaction has none); email: 'email', else
\* 'contact_email' ("": neither); first, last: first_name and last_name of
\* billing_address ("": absent or empty, also when there is no billing
\* address; NullName: null).
Payload(id, named, items, ship, disc, cancelled, refunds) ==
  [id |-> id, named |-> named, items |-> items, ship |-> ship, disc |-> disc,
   cancelled |-> cancelled, refunds |-> refunds,
   fin |-> <<>>, ful |-> <<>>, cat |-> <<>>, noship |-> FALSE,
   gateways |-> <<>>, txgw |-> <<>>, email |-> "", first |-> "", last |-> ""]

\* the payload with financial_status fin, fulfillment_status ful,
\* delivery_category cat, each the sequence of the words and separators of
\* the value (<<>>: absent, null or empty), and requires_shipping false
\* when noship
WithStatus(p, fin, ful, cat, noship) ==
  [p EXCEPT !.fin = fin, !.ful = ful, !.cat = cat, !.noship = noship]

\* ------------------------------------------------------------------ status projection
\* str.replace(' ', '_')
Underscored(v) == [i \in 1..Len(v) |-> IF v[i] = " " THEN "_" ELSE v[i]]

\* lines 102-121: the maps of _prepare_sale_order_status_vals
FinancialMap ==
  {<<<<"pending">>, "pending">>,
   <<<<"authorized">>, "authorized">>,
   <<<<"partially", "_", "paid">>, "partially_paid">>,
   <<<<"paid">>, "paid">>,
   <<<<"partially", "_", "refunded">>, "partially_refunded">>,
   <<<<"refunded">>, "refunded">>,
   <<<<"voided">>, "voided">>}

FulfillmentMap ==
  {<<<<"unfulfilled">>, "unfulfilled">>,
   <<<<"partial">>, "partial">>,
   <<<<"fulfilled">>, "fulfilled">>,
   <<<<"restocked">>, "restocked">>}

DeliveryMap ==
  {<<<<"shipping">>, "shipping">>,
   <<<<"pickup">>, "pickup">>,
   <<<<"local", "_", "delivery">>, "local_delivery">>,
   <<<<"none">>, "none">>}

\* dict.get(k, d)
MapGet(map, k, d) ==
  IF \E e \in map : e[1] = k THEN (CHOOSE e \in map : e[1] = k)[2] ELSE d

\* FinancialStatus by a map without the fallback to 'pending'
FinancialStatusUnmapped(p) ==
  MapGet(FinancialMap, Underscored(IF p.fin = <<>> THEN <<"pending">> ELSE p.fin), "unknown")

\* lines 76 and 123
FinancialStatus(p) ==
  MapGet(FinancialMap, Underscored(IF p.fin = <<>> THEN <<"pending">> ELSE p.fin), "pending")

\* lines 77-78 and 124
FulfillmentStatus(p) ==
  MapGet(FulfillmentMap, Underscored(IF p.ful = <<>> THEN <<"unfulfilled">> ELSE p.ful),
         "unfulfilled")

\* DeliveryCategory deciding on requires_shipping first, then on the
\* shipping lines, then on the category of the payload
DeliveryCategoryNoneFirst(p) ==
  IF p.noship THEN "none"
  ELSE IF p.ship # <<>> THEN "shipping"
  ELSE MapGet(DeliveryMap, p.cat, "shipping")

\* lines 87-100 and 125
DeliveryCategory(p) ==
  LET c1 == IF p.ship # <<>> /\ p.cat = <<>> THEN <<"shipping">> ELSE p.cat
      c2 == IF c1 = <<>> THEN (IF p.noship THEN <<"none">> ELSE <<"shipping">>) ELSE c1
  IN MapGet(DeliveryMap, c2, "shipping")

\* lines 81-84: the gateways of the transactions are appended to the list
\* payment_methods when they are non-empty and not yet in it
RECURSIVE AppendGateways(_, _)
AppendGateways(pm, tx) ==
  IF tx = <<>> THEN pm
  ELSE AppendGateways(IF Head(tx) # "" /\ \A i \in 1..Len(pm) : pm[i] # Head(tx)
                        THEN Append(pm, Head(tx)) ELSE pm,
                      Tail(tx))

\* ', '.join(names): the names with the separator between them
RECURSIVE JoinNames(_)
JoinNames(names) ==
  IF Len(names) <= 1 THEN names
  ELSE <<Head(names), ", ">> \o JoinNames(Tail(names))

\* lines 80-85: shopify_payment_method; <<>> stands for False
PaymentMethod(p) ==
  JoinNames(SelectSeq(AppendGateways(p.gateways, p.txgw), LAMBDA pm : pm # ""))

\* _prepare_sale_order_status_vals: shopify_payment_status,
\* shopify_payment_method, shopify_fulfillment_status,
\* shopify_delivery_category
PrepareSaleOrderStatusVals(p) ==
  [payment |-> FinancialStatus(p), fulfillment |-> FulfillmentStatus(p),
   category |-> DeliveryCategory(p), method |-> PaymentMethod(p)]

\* the status fields of an order that has none
NoStatus == [payment |-> "", fulfillment |-> "", category |-> "", method |-> <<>>]

Payloads(id) ==
  {Payload(id, TRUE, <<ItemA>>, <<>>, 0, FALSE, <<>>),
   Payload(id, TRUE, <<ItemB, ItemA>>, <<5>>, 2, FALSE, <<>>),
   Payload(id, TRUE, <<ItemA, ItemBad>>, <<>>, 0, FALSE, <<>>),
   Payload(id, TRUE, <<ItemA>>, <<>>, 0, TRUE, <<>>),
   Payload(id, FALSE, <<ItemA>>, <<>>, 0, FALSE, <<>>)}

\* ------------------------------------------------------------------ records
\* inv: the first customer invoice of the order that is not cancelled; n:
\* the number of its customer invoices that are not cancelled
NoInvoice == [st |-> "none", lines |-> <<>>, n |-> 0]

\* fin, ful: shopify_order_status and shopify_fulfillment_status of the
\* mapping ("": not set)
NewMapping(sid, o, inst, sync) ==
  [sid |-> sid, order |-> o, inst |-> inst, sync |-> sync, active |-> TRUE,
   fin |-> "", ful |-> ""]

\* the mapping records a search sees: archived records are left out
Visible(maps) == {k \in 1..Len(maps) : maps[k].active}

\* uniq_shopify_order_instance: a record other than m, archived or not, has
\* the key (external id, instance)
KeyTaken(maps, sid, inst, m) ==
  \E k \in 1..Len(maps) : k # m /\ maps[k].sid = sid /\ maps[k].inst = inst

\* str(None) in an f-string
PyStr(x) == IF x = NullName THEN "None" ELSE x

\* str.strip() of a string given as its pieces: the blank and empty pieces
\* at both ends removed
RECURSIVE Strip(_)
Strip(t) ==
  IF t = <<>> THEN t
  ELSE IF Head(t) \in {"", " "} THEN Strip(Tail(t))
  ELSE IF t[Len(t)] \in {"", " "} THEN Strip(SubSeq(t, 1, Len(t) - 1))
  ELSE t

\* lines 599-605: customer_name
CustomerName(p) ==
  IF p.first \in {"", NullName} /\ p.last \in {"", NullName}
    THEN <<"Unknown Customer">>
    ELSE Strip(<<PyStr(p.first), " ", PyStr(p.last)>>)

\* the place of a customer name in the order of complete_name
PartnerRank(name) ==
  CASE name = <<"Al">> -> 1
    [] name = <<"Zoe">> -> 9
    [] OTHER -> 5

\* res.partner search(domain, limit=1) over the matching ids S: the first by
\* complete_name, then the newest (_order = 'complete_name ASC, id DESC')
FirstPartner(ps, S) ==
  IF S = {} THEN 0
  ELSE CHOOSE k \in S :
         \A j \in S : \/ PartnerRank(ps[k].name) < PartnerRank(ps[j].name)
                      \/ PartnerRank(ps[k].name) = PartnerRank(ps[j].name) /\ k >= j

\* lines 607-616: the first customer with the email of the payload, when it
\* has one; else a new customer
ResolveCustomer(ps, p) ==
  LET found == IF p.email = "" THEN 0
               ELSE FirstPartner(ps, {k \in 1..Len(ps) : ps[k].email = p.email})
  IN IF found # 0 THEN [partners |-> ps, id |-> found]
     ELSE [partners |-> Append(ps, [name |-> CustomerName(p), email |-> p.email]),
           id |-> Len(ps) + 1]

\* order_vals of import_orders_from_shopify; partner: partner_id (0: a
\* customer the import has neither found nor created)
ImportedOrder(p) ==
  [ref |-> p.id, src |-> "shopify", st |-> "draft", lines |-> <<>>,
   inv |-> NoInvoice, sync |-> TRUE, exp |-> "not_exported",
   status |-> PrepareSaleOrderStatusVals(p), partner |-> 0]

\* sale.order _set_shopify_status_values: the status values written on the
\* order
SetShopifyStatusValues(db, o, vals) == [db EXCEPT !.orders[o].status = vals]

\* ------------------------------------------------------------------ sale.order
\* _mark_for_resync: every mapping of the order back to pending, and the
\* order marked for export when it has a mapping
MarkForResync(db, o) ==
  LET has == \E i \in Visible(db.mappings) : db.mappings[i].order = o
  IN [db EXCEPT
        !.mappings = [i \in 1..Len(@) |->
                        IF @[i].order = o /\ @[i].active
                          THEN [@[i] EXCEPT !.sync = "pending"] ELSE @[i]],
        !.orders[o].exp = IF has THEN "pending" ELSE @]

\* sale.order.write({'state': st}) through the override: 'state' is a sync
\* field, so a sync-enabled order created in Odoo is marked for re-export
WriteOrderState(db, o, st) ==
  LET d == [db EXCEPT !.orders[o].st = st]
  IN IF d.orders[o].sync /\ d.orders[o].src = "odoo" THEN MarkForResync(d, o) ELSE d

\* ------------------------------------------------------------------ import of one order
\* Dedup with the search of line 546 never matching (the external id compared
\* as a number with the stored string)
DedupUnmatched(db, inst, p) ==
  LET o  == FirstIdx({k \in 1..Len(db.orders) : db.orders[k].ref = p.id})
      m2 == FirstIdx({k \in Visible(db.mappings) :
                        db.mappings[k].order = o /\ db.mappings[k].inst = inst})
  IN IF p.named /\ o # 0
       THEN IF m2 # 0 THEN [db |-> db, m |-> m2, rejected |-> {}]
            ELSE IF KeyTaken(db.mappings, p.id, inst, 0)
              THEN [db |-> db, m |-> 0, rejected |-> {<<p.id, inst>>}]
            ELSE [db |-> [db EXCEPT !.mappings =
                                  Append(@, NewMapping(p.id, o, inst, "synced"))],
                  m |-> Len(db.mappings) + 1, rejected |-> {}]
       ELSE [db |-> db, m |-> 0, rejected |-> {}]

\* lines 546-570: the mapping of (external id, instance); failing that, and
\* when the payload has an order number, the order carrying the reference
\* "Shopify-<id>", with its mapping for the instance found or created
Dedup(db, inst, p) ==
  LET m1 == FirstIdx({k \in Visible(db.mappings) :
                        db.mappings[k].sid = p.id /\ db.mappings[k].inst = inst})
      o  == FirstIdx({k \in 1..Len(db.orders) : db.orders[k].ref = p.id})
      m2 == FirstIdx({k \in Visible(db.mappings) :
                        db.mappings[k].order = o /\ db.mappings[k].inst = inst})
  IN IF m1 # 0 THEN [db |-> db, m |-> m1, rejected |-> {}]
     ELSE IF p.named /\ o # 0
       THEN IF m2 # 0 THEN [db |-> db, m |-> m2, rejected |-> {}]
            ELSE IF KeyTaken(db.mappings, p.id, inst, 0)
              THEN [db |-> db, m |-> 0, rejected |-> {<<p.id, inst>>}]
            ELSE [db |-> [db EXCEPT !.mappings =
                                  Append(@, NewMapping(p.id, o, inst, "synced"))],
                  m |-> Len(db.mappings) + 1, rejected |-> {}]
       ELSE [db |-> db, m |-> 0, rejected |-> {}]

StageDedup(s, inst, p) ==
  LET d == Dedup(s.db, inst, p)
  IN [s EXCEPT !.db = d.db, !.m = d.m, !.existing = d.m, !.rejected = d.rejected,
               !.err = d.rejected # {}]

\* lines 572-647: the status values projected, then written on the mapped
\* order, or a new order of source 'shopify' created with them
StageOrder(s, p) ==
  IF s.err THEN s
  ELSE IF s.m # 0
    THEN [s EXCEPT !.o = s.db.mappings[s.m].order,
                   !.status = PrepareSaleOrderStatusVals(p),
                   !.db = SetShopifyStatusValues(@, s.db.mappings[s.m].order,
                                                 PrepareSaleOrderStatusVals(p))]
    ELSE [s EXCEPT !.db.partners = ResolveCustomer(@, p).partners,
                   !.db.orders = Append(@, [ImportedOrder(p) EXCEPT
                                              !.partner = ResolveCustomer(s.db.partners, p).id]),
                   !.status = PrepareSaleOrderStatusVals(p),
                   !.o = Len(s.db.orders) + 1,
                   !.created = 1]

\* line 691: int(quantity) or 1
LineQty(item) == IF item.qty = 0 THEN 1 ELSE item.qty

\* lines 692-697: the sum of the allocation amounts float() accepts
DiscountTotal(item) ==
  SumSeq([i \in 1..Len(item.allocs) |->
            IF item.allocs[i] = BadPrice THEN 0 ELSE item.allocs[i]])

\* LinePrice with the discount total taken off every unit
LinePriceUndivided(item) == item.price * Cent - DiscountTotal(item) * Cent

\* price_unit of an order line: price - discount_total / quantity
LinePrice(item) == item.price * Cent - (DiscountTotal(item) * Cent) \div LineQty(item)

ItemLine(item, prod) == [prod |-> prod, qty |-> LineQty(item), pu |-> LinePrice(item)]

\* default_code as a tuple: <<>> for NULL, <<code>> for a code, and the
\* default f"SHOPIFY-{order id}-{item id}" of line 671 (the item's position
\* stands for its id)
ItemSku(p, i) ==
  IF p.items[i].sku = NoSkuKey THEN <<"SHOPIFY", p.id, i>>
  ELSE IF p.items[i].sku = NullSku THEN <<>>
  ELSE <<p.items[i].sku>>

\* line 670: item.get('name', 'Unknown Product')
ItemName(item) == IF item.name = NoNameKey THEN "Unknown Product" ELSE item.name

\* the place of a name, and of a default_code, in the order of the strings
\* that occur; a default_code that is NULL comes last
NameRank(name) ==
  CASE name = "A" -> 1
    [] name = "B" -> 2
    [] name = "C" -> 3
    [] name = "Shopify Item" -> 4
    [] name = "Unknown Product" -> 5
    [] OTHER -> 6

CodeRank(sku) ==
  IF sku = <<>> THEN 99
  ELSE IF Len(sku) = 1 THEN NameRank(sku[1])
  ELSE 10 + 9 * sku[2] + sku[3]

\* product.product is ordered by default_code, name, id: search(limit=1)
\* returns the first of the matching ids S in that order, or 0
FirstProduct(prods, S) ==
  IF S = {} THEN 0
  ELSE CHOOSE i \in S :
         \A j \in S :
           \/ CodeRank(prods[i].sku) < CodeRank(prods[j].sku)
           \/ /\ CodeRank(prods[i].sku) = CodeRank(prods[j].sku)
              /\ \/ NameRank(prods[i].name) < NameRank(prods[j].name)
                 \/ NameRank(prods[i].name) = NameRank(prods[j].name) /\ i <= j

\* FindProduct matching on name and default_code both
FindProductBoth(prods, name, sku) ==
  FirstProduct(prods, {k \in 1..Len(prods) : prods[k].name = name /\ prods[k].sku = sku})

\* lines 674-675: search(['|', name =, default_code =], limit=1)
FindProduct(prods, name, sku) ==
  FirstProduct(prods, {k \in 1..Len(prods) : prods[k].name = name \/ prods[k].sku = sku})

\* lines 668-685: the product found, else a placeholder created
ResolveProduct(prods, name, sku) ==
  LET k == FindProduct(prods, name, sku)
  IN IF k # 0 THEN [products |-> prods, prod |-> k]
     ELSE [products |-> Append(prods, [name |-> name, sku |-> sku]),
           prod |-> Len(prods) + 1]

\* lines 653-708: one line per line item, up to the first item whose price
\* float() rejects
RECURSIVE BuildItemLines(_, _, _, _)
BuildItemLines(p, i, prods, acc) ==
  IF i > Len(p.items) THEN [lines |-> acc, ok |-> TRUE, products |-> prods]
  ELSE IF p.items[i].price = BadPrice THEN [lines |-> acc, ok |-> FALSE, products |-> prods]
  ELSE LET r == ResolveProduct(prods, ItemName(p.items[i]), ItemSku(p, i))
       IN BuildItemLines(p, i + 1, r.products, Append(acc, ItemLine(p.items[i], r.prod)))

\* lines 710-722: one line per shipping entry
ShippingLines(p) ==
  [i \in 1..Len(p.ship) |-> [prod |-> ShippingProduct, qty |-> 1, pu |-> p.ship[i] * Cent]]

\* lines 728-738: one negative line for a non-zero total_discounts
DiscountLines(p) ==
  IF p.disc # 0 THEN <<[prod |-> DiscountProduct, qty |-> 1, pu |-> -(p.disc * Cent)]>> ELSE <<>>

\* KeptLines without the unlink of line 650
KeptLinesAll(order) == order.lines

\* line 649: the lines an import starts from
KeptLines(order) == IF order.src = "shopify" THEN <<>> ELSE order.lines

\* lines 649-738
StageLines(s, p) ==
  IF s.err THEN s
  ELSE LET b == BuildItemLines(p, 1, s.db.products, KeptLines(s.db.orders[s.o]))
       IN IF b.ok
            THEN [s EXCEPT !.db.orders[s.o].lines = b.lines \o ShippingLines(p) \o DiscountLines(p),
                           !.db.products = b.products]
            ELSE [s EXCEPT !.db.orders[s.o].lines = b.lines, !.db.products = b.products,
                           !.err = TRUE]

\* EnsureInvoice creating an invoice whether or not the order has one
EnsureInvoiceAlways(s, f) ==
  LET d1 == IF s.db.orders[s.o].st = "draft" THEN WriteOrderState(s.db, s.o, "sale") ELSE s.db
      inv == d1.orders[s.o].inv
      inv1 == [st |-> "draft", lines |-> d1.orders[s.o].lines, n |-> inv.n + 1]
  IN IF f = "invoice"
       THEN [s EXCEPT !.db = d1, !.err = TRUE, !.hit = TRUE]
     ELSE IF f = "post"
       THEN [s EXCEPT !.db = [d1 EXCEPT !.orders[s.o].inv = inv1],
                      !.err = TRUE, !.hit = TRUE]
     ELSE [s EXCEPT !.db = [d1 EXCEPT !.orders[s.o].inv = [inv1 EXCEPT !.st = "posted"]],
                    !.invoice = TRUE]

\* _ensure_invoice_for_order; f = "invoice": _create_invoices raises;
\* f = "post": action_post raises and the invoice stays a draft
EnsureInvoice(s, f) ==
  LET d1 == IF s.db.orders[s.o].st = "draft" THEN WriteOrderState(s.db, s.o, "sale") ELSE s.db
      inv == d1.orders[s.o].inv
      has == inv.st \in {"draft", "posted"}
      inv1 == IF has THEN inv
              ELSE [st |-> "draft", lines |-> d1.orders[s.o].lines, n |-> inv.n + 1]
  IN IF ~has /\ f = "invoice"
       THEN [s EXCEPT !.db = d1, !.err = TRUE, !.hit = TRUE]
     ELSE IF inv1.st # "posted" /\ f = "post"
       THEN [s EXCEPT !.db = [d1 EXCEPT !.orders[s.o].inv = inv1],
                      !.err = TRUE, !.hit = TRUE]
     ELSE [s EXCEPT !.db = [d1 EXCEPT !.orders[s.o].inv = [inv1 EXCEPT !.st = "posted"]],
                    !.invoice = TRUE]

\* line 744, action_cancel(): the order's draft invoice is cancelled with
\* the order, a posted one is kept
ActionCancel(db, o) ==
  LET d == IF db.orders[o].inv.st = "draft"
             THEN [db EXCEPT !.orders[o].inv = [@ EXCEPT !.st = "cancel", !.n = @ - 1]]
             ELSE db
  IN WriteOrderState(d, o, "cancel")

\* StageInvoice with a failure of action_cancel left to the per-order handler
StageInvoiceCancelRaises(s, p, f) ==
  IF s.err THEN s
  ELSE IF p.cancelled
    THEN IF s.db.orders[s.o].st = "cancel" THEN s
         ELSE IF f = "cancel" THEN [s EXCEPT !.err = TRUE, !.hit = TRUE]
         ELSE [s EXCEPT !.db = ActionCancel(s.db, s.o)]
    ELSE EnsureInvoice(s, f)

\* lines 740-749
StageInvoice(s, p, f) ==
  IF s.err THEN s
  ELSE IF p.cancelled
    THEN IF s.db.orders[s.o].st = "cancel" THEN s
         ELSE IF f = "cancel" THEN [s EXCEPT !.hit = TRUE]
         ELSE [s EXCEPT !.db = ActionCancel(s.db, s.o)]
    ELSE EnsureInvoice(s, f)

\* the value a Selection field refuses (ValueError: Wrong value for ...)
WrongValue == "(wrong value)"

\* lines 762-763: shopify_order.get('financial_status', 'pending') as the
\* field shopify_order_status (lines 32-44) takes it; p.fin = <<>> is read
\* as the key being absent
MappingFinancial(p) ==
  IF p.fin = <<>> THEN "pending" ELSE MapGet(FinancialMap, p.fin, WrongValue)

\* lines 764-765: shopify_order.get('fulfillment_status', 'unfulfilled') or
\* 'unfulfilled' as the field shopify_fulfillment_status (lines 46-55)
\* takes it
MappingFulfillment(p) ==
  IF p.ful = <<>> THEN "unfulfilled" ELSE MapGet(FulfillmentMap, p.ful, WrongValue)

\* lines 752-814: the mapping written, or created when none was found; a
\* value outside the selection of a status field raises
StageMapping(s, inst, p, f) ==
  IF s.err THEN s
  ELSE IF f = "mapping" THEN [s EXCEPT !.err = TRUE, !.hit = TRUE]
  ELSE IF WrongValue \in {MappingFinancial(p), MappingFulfillment(p)}
    THEN [s EXCEPT !.err = TRUE]
  ELSE IF KeyTaken(s.db.mappings, p.id, inst, s.m)
    THEN [s EXCEPT !.err = TRUE, !.rejected = {<<p.id, inst>>}]
  ELSE IF s.m # 0
    THEN [s EXCEPT !.db.mappings[s.m] =
                      [@ EXCEPT !.sid = p.id, !.order = s.o, !.inst = inst, !.sync = "synced",
                                !.fin = MappingFinancial(p), !.ful = MappingFulfillment(p)],
                   !.updated = 1]
    ELSE [s EXCEPT !.db.mappings =
                     Append(@, [NewMapping(p.id, s.o, inst, "synced") EXCEPT
                                  !.fin = MappingFinancial(p), !.ful = MappingFulfillment(p)]),
                   !.m = Len(s.db.mappings) + 1]

\* ------------------------------------------------------------------ refunds
\* refunds[]: id (0: none), tx: transaction amounts, items: refund_line_items
\* (line_item.name, quantity, subtotal, total_tax, line_item.price; the line
\* item has neither a product mapping nor a 'sku'), ship: shipping
\* amount, adj: adjustment amounts; all amounts in cents
Refund(id, tx, items, ship, adj) ==
  [id |-> id, tx |-> tx, items |-> items, ship |-> ship, adj |-> adj]

RItem(name, qty, sub, tax, price) ==
  [name |-> name, sku |-> NoSkuKey, qty |-> qty, sub |-> sub, tax |-> tax, price |-> price]

\* line 307: line_item.get('name', 'Shopify Item')
RefundItemName(it) == IF it.name = NoNameKey THEN "Shopify Item" ELSE it.name

\* line 308: line_item.get('sku'), None without the key
RefundItemSku(it) == IF it.sku \in {NoSkuKey, NullSku} THEN <<>> ELSE <<it.sku>>

\* lines 261-276: |sum of the transaction amounts|, else sum of |subtotal|
RECURSIVE SumAbsSub(_)
SumAbsSub(items) ==
  IF items = <<>> THEN 0 ELSE Abs(Head(items).sub) * Cent + SumAbsSub(Tail(items))

\* RefundAmount without the abs() of line 268
RefundAmountSigned(refund) ==
  LET a == SumSeq(refund.tx) * Cent
  IN IF a = 0 THEN SumAbsSub(refund.items) ELSE a

RefundAmount(refund) ==
  LET a == Abs(SumSeq(refund.tx)) * Cent
  IN IF a = 0 THEN SumAbsSub(refund.items) ELSE a

\* PoolCandidate without the test of line 345: the first invoice line of
\* the product, whatever is left of it
PoolCandidateAny(invLines, pool, prod, qty) ==
  FirstIdx({i \in 1..Len(pool) : invLines[i].prod = prod})

\* lines 343-348: the first invoice line of the product whose remaining
\* quantity covers qty (quantities are whole, so the 1e-6 tolerance is idle)
PoolCandidate(invLines, pool, prod, qty) ==
  IF \E i \in 1..Len(pool) : invLines[i].prod = prod /\ pool[i] >= qty
    THEN CHOOSE i \in 1..Len(pool) :
           /\ invLines[i].prod = prod /\ pool[i] >= qty
           /\ \A j \in 1..(i - 1) : ~(invLines[j].prod = prod /\ pool[j] >= qty)
    ELSE 0

\* lines 320-355: subtotal / qty, else the line item's price; plus
\* total_tax / qty; else the matched invoice line's price
RefundPriceUnit(it, qty, invLines, c) ==
  LET pu0 == (it.sub * Cent) \div qty
      pu1 == IF pu0 = 0 /\ it.price # 0 THEN it.price * Cent ELSE pu0
      pu2 == IF it.tax # 0 THEN pu1 + (it.tax * Cent) \div qty ELSE pu1
  IN IF pu2 = 0 /\ c # 0 THEN invLines[c].pu ELSE pu2

\* lines 286-364: one credit-note line per refund line item of non-zero
\* quantity, consuming the invoice line pool; inv: the invoice line matched
\* at lines 344-348 (0: none)
RECURSIVE RefundItemLines(_, _, _, _, _, _)
RefundItemLines(items, invLines, pool, hasInv, prods, acc) ==
  IF items = <<>> THEN [lines |-> acc, pool |-> pool, products |-> prods]
  ELSE LET it == Head(items)
           qty == Abs(it.qty)
           r == ResolveProduct(prods, RefundItemName(it), RefundItemSku(it))
           c == IF hasInv THEN PoolCandidate(invLines, pool, r.prod, qty) ELSE 0
       IN IF qty = 0
            THEN RefundItemLines(Tail(items), invLines, pool, hasInv, prods, acc)
            ELSE RefundItemLines(Tail(items), invLines,
                   IF c # 0 THEN [pool EXCEPT ![c] = @ - qty] ELSE pool,
                   hasInv, r.products,
                   Append(acc, [kind |-> "item", prod |-> r.prod, qty |-> qty,
                                pu |-> RefundPriceUnit(it, qty, invLines, c),
                                inv |-> c]))

\* lines 366-386
RefundShippingLines(refund) ==
  IF refund.ship # 0
    THEN <<[kind |-> "ship", prod |-> ShippingProduct, qty |-> 1, pu |-> refund.ship * Cent]>>
    ELSE <<>>

\* lines 388-404: one line of |amount| per adjustment of non-zero amount
RECURSIVE RefundAdjustmentLines(_)
RefundAdjustmentLines(adj) ==
  IF adj = <<>> THEN <<>>
  ELSE (IF Head(adj) # 0
          THEN <<[kind |-> "adj", prod |-> RefundProduct, qty |-> 1, pu |-> Abs(Head(adj)) * Cent]>>
          ELSE <<>>) \o RefundAdjustmentLines(Tail(adj))

\* what _sync_shopify_refunds adds to constructed_total for a line
ConstructedAmount(line) == line.pu * line.qty

RECURSIVE ConstructedTotal(_)
ConstructedTotal(lines) ==
  IF lines = <<>> THEN 0 ELSE ConstructedAmount(Head(lines)) + ConstructedTotal(Tail(lines))

\* lines 406-414: the catch-all line when nothing was constructed
WithCatchAll(lines, amount) ==
  IF lines = <<>>
    THEN [lines |-> <<[kind |-> "catchall", prod |-> RefundProduct, qty |-> 1, pu |-> amount]>>,
          total |-> amount]
    ELSE [lines |-> lines, total |-> ConstructedTotal(lines)]

\* WithBalance with the comparison of line 417 written >=
WithBalanceAtCent(c, amount) ==
  LET delta == amount - c.total
  IN IF Abs(delta) >= Cent
       THEN Append(c.lines, [kind |-> "balance", prod |-> RefundProduct, qty |-> 1, pu |-> delta])
       ELSE c.lines

\* lines 416-424: the balancing line when |amount - constructed_total| > 0.01
WithBalance(c, amount) ==
  LET delta == amount - c.total
  IN IF Abs(delta) > Cent
       THEN Append(c.lines, [kind |-> "balance", prod |-> RefundProduct, qty |-> 1, pu |-> delta])
       ELSE c.lines

\* lines 283-424: invoice_line_vals of one refund, and the pool it leaves
BuildRefundLines(refund, invLines, pool, hasInv, prods) ==
  LET amount == RefundAmount(refund)
      r == RefundItemLines(refund.items, invLines, pool, hasInv, prods, <<>>)
      l == r.lines \o RefundShippingLines(refund) \o RefundAdjustmentLines(refund.adj)
  IN [lines |-> WithBalance(WithCatchAll(l, amount), amount), pool |-> r.pool,
      pool0 |-> pool, amount |-> amount, products |-> r.products]

\* account.move amount_total of untaxed lines
RECURSIVE AmountTotal(_)
AmountTotal(lines) ==
  IF lines = <<>> THEN 0 ELSE Head(lines).pu * Head(lines).qty + AmountTotal(Tail(lines))

\* SearchRefund restricted to the records whose credit note is a draft
SearchRefundDraft(rm, rid, inst) ==
  FirstIdx({k \in 1..Len(rm) : rm[k].rid = rid /\ rm[k].inst = inst /\ rm[k].st = "draft"})

\* the shopify.refund record of (refund id, instance), lines 440-443
SearchRefund(rm, rid, inst) == FirstIdx({k \in 1..Len(rm) : rm[k].rid = rid /\ rm[k].inst = inst})

\* StateForWrite without the button_draft of line 446
StateForWriteKept(st) == st

\* lines 445-446: the state in which an existing credit note is written
StateForWrite(st) == IF st = "posted" THEN "draft" ELSE st

\* lines 455-463: the receivable lines of invoice and credit note
\* reconciled when the invoice is posted; failing: reconcile() raises, which
\* line 461 catches and logs as a warning
Reconcile(invst, failing) ==
  IF invst # "posted" THEN "none" ELSE IF failing THEN "failed" ELSE "done"

\* lines 426-463: the credit note of the refund written or created, then
\* posted and reconciled.  write() with (0, 0, vals) commands adds the lines
\* to those the credit note already has.  origin: invoice_origin, the order;
\* pool0 and pool: the remaining quantities of invoice_line_pool when the
\* construction of vals began and when it ended; wst: the state of the
\* credit note when write() or create() set its contents; ops: the calls
\* made on it, in order; rec: the outcome of Reconcile; payload: the refund
\* its contents were taken from.
UpsertMove(db, inst, o, refund, b, hasInv, f) ==
  LET rm == SearchRefund(db.rmaps, refund.id, inst)
      mv == IF rm # 0 THEN db.rmaps[rm].move ELSE 0
      st0 == IF mv # 0 THEN db.moves[mv].st ELSE "draft"
      st1 == IF mv # 0 THEN StateForWrite(st0) ELSE st0
      st2 == IF st1 # "posted" THEN "posted" ELSE st1
      rec == Reconcile(db.orders[o].inv.st, f = "reconcile")
      ops == (IF mv # 0 /\ st0 = "posted" THEN <<"button_draft">> ELSE <<>>)
             \o (IF mv # 0 THEN <<"write">> ELSE <<"create">>)
             \o (IF st1 # "posted" THEN <<"action_post">> ELSE <<>>)
             \o (IF rec # "none" THEN <<"reconcile">> ELSE <<>>)
  IN IF mv # 0
       THEN [db |-> [db EXCEPT !.moves[mv] =
                      [@ EXCEPT !.st = st2, !.lines = @ \o b.lines, !.vals = b.lines,
                                !.amount = b.amount, !.origin = o,
                                !.pool0 = b.pool0, !.pool = b.pool,
                                !.wst = st1, !.ops = ops, !.rec = rec,
                                !.payload = refund,
                                !.rev = IF hasInv THEN o ELSE @]],
             mv |-> mv]
       ELSE [db |-> [db EXCEPT !.moves = Append(@,
                      [rid |-> refund.id, inst |-> inst, st |-> st2, lines |-> b.lines,
                       vals |-> b.lines, amount |-> b.amount, origin |-> o,
                       pool0 |-> b.pool0, pool |-> b.pool,
                       wst |-> st1, ops |-> ops, rec |-> rec, payload |-> refund,
                       rev |-> IF hasInv THEN o ELSE 0])],
             mv |-> Len(db.moves) + 1]

\* UpsertRefund taking the amount from the refund instead of the credit note
UpsertRefundPayloadAmount(db, inst, m, refund, mv) ==
  LET rm == SearchRefund(db.rmaps, refund.id, inst)
      vals == [rid |-> refund.id, inst |-> inst, omap |-> m, move |-> mv,
               amount |-> db.moves[mv].amount, st |-> db.moves[mv].st]
  IN IF rm # 0
       THEN [db EXCEPT !.rmaps[rm] = vals]
       ELSE [db EXCEPT !.rmaps = Append(@, vals)]

\* lines 465-480: the shopify.refund record written or created
UpsertRefund(db, inst, m, refund, mv) ==
  LET rm == SearchRefund(db.rmaps, refund.id, inst)
      vals == [rid |-> refund.id, inst |-> inst, omap |-> m, move |-> mv,
               amount |-> Abs(AmountTotal(db.moves[mv].lines)), st |-> db.moves[mv].st]
  IN IF rm # 0
       THEN [db EXCEPT !.rmaps[rm] = vals]
       ELSE [db EXCEPT !.rmaps = Append(@, vals)]

\* lines 255-480: the loop over the refunds; a refund without id is skipped
RECURSIVE SyncRefundsLoop(_, _, _, _, _, _, _, _)
SyncRefundsLoop(db, inst, o, m, refunds, pool, hasInv, f) ==
  IF refunds = <<>> THEN db
  ELSE LET refund == Head(refunds)
           b == BuildRefundLines(refund, db.orders[o].inv.lines, pool, hasInv, db.products)
           u == UpsertMove([db EXCEPT !.products = b.products], inst, o, refund, b, hasInv, f)
       IN IF refund.id = 0
            THEN SyncRefundsLoop(db, inst, o, m, Tail(refunds), pool, hasInv, f)
            ELSE SyncRefundsLoop(UpsertRefund(u.db, inst, m, refund, u.mv), inst, o, m,
                                 Tail(refunds), b.pool, hasInv, f)

\* _sync_shopify_refunds, lines 235-253, from the order's invoice that is
\* not cancelled
SyncShopifyRefunds(db, inst, o, m, refunds, f) ==
  LET inv == db.orders[o].inv
      hasInv == inv.st \in {"draft", "posted"}
      pool == IF hasInv THEN [i \in 1..Len(inv.lines) |-> inv.lines[i].qty] ELSE <<>>
  IN SyncRefundsLoop(db, inst, o, m, refunds, pool, hasInv, f)

\* a reconcile() is attempted: some refund has an id and the invoice is posted
Reconciles(db, o, refunds) ==
  /\ db.orders[o].inv.st = "posted"
  /\ \E i \in 1..Len(refunds) : refunds[i].id # 0

\* StageRefunds with a failure of reconcile() left to the per-order handler
StageRefundsFatal(s, inst, p, f) ==
  IF s.err \/ p.refunds = <<>> THEN s
  ELSE IF f = "refund" THEN [s EXCEPT !.err = TRUE, !.hit = TRUE]
  ELSE IF f = "reconcile" /\ Reconciles(s.db, s.o, p.refunds)
    THEN [s EXCEPT !.err = TRUE, !.hit = TRUE]
  ELSE [s EXCEPT !.db = SyncShopifyRefunds(s.db, inst, s.o, s.m, p.refunds, f)]

\* lines 817-822; _get_sale_journal raises when the company has no sales journal
StageRefunds(s, inst, p, f) ==
  IF s.err \/ p.refunds = <<>> THEN s
  ELSE IF f = "refund" THEN [s EXCEPT !.err = TRUE, !.hit = TRUE]
  ELSE [s EXCEPT !.db = SyncShopifyRefunds(s.db, inst, s.o, s.m, p.refunds, f),
                 !.hit = @ \/ (f = "reconcile" /\ Reconciles(s.db, s.o, p.refunds))]

\* the body of the per-order try block, lines 545-822, stage after stage
\* (each stage is given the value the one before it returned)
ImportOne(db, inst, p, f) ==
  LET s0 == [db |-> db, m |-> 0, existing |-> 0, o |-> 0, created |-> 0, updated |-> 0,
             err |-> FALSE, hit |-> FALSE, invoice |-> FALSE, rejected |-> {},
             status |-> NoStatus]
      s1 == CHOOSE y \in {StageDedup(s, inst, p) : s \in {s0}} : TRUE
      s2 == CHOOSE y \in {StageOrder(s, p) : s \in {s1}} : TRUE
      s3 == CHOOSE y \in {StageLines(s, p) : s \in {s2}} : TRUE
      s4 == CHOOSE y \in {StageInvoice(s, p, f) : s \in {s3}} : TRUE
      s5 == CHOOSE y \in {StageMapping(s, inst, p, f) : s \in {s4}} : TRUE
  IN CHOOSE y \in {StageRefunds(s, inst, p, f) : s \in {s5}} : TRUE

\* what the environment can make fail while one order is processed:
\* action_cancel (caught and logged at lines 743-747), _create_invoices, the
\* write or create of the mapping, _get_sale_journal; the failures "post"
\* (action_post of the invoice) and "reconcile" (caught and logged at lines
\* 459-463) are studied in specifications of their own
EnvFailures == {"none", "cancel", "invoice", "mapping", "refund"}

\* ------------------------------------------------------------------ the import run
NoPayload == Payload(0, FALSE, <<>>, <<>>, 0, FALSE, <<>>)

\* the locals of the loop body after an iteration: shopify_order, odoo_order,
\* existing_mapping as found by lines 546-570, status_vals, whether the
\* handler ran, and f: what failed during the iteration
NoStep ==
  [p |-> NoPayload, o |-> 0, existing |-> 0, err |-> FALSE, status |-> NoStatus,
   f |-> "none"]

\* resp: status and body of the last response (0: no request yet, -1: the
\* request raised); raised: the errors raised to the caller
Idle ==
  [pc |-> "idle", inst |-> 0, job |-> 0, n |-> 0, page |-> <<>>, idx |-> 0,
   last_id |-> 0, created |-> 0, updated |-> 0, errors |-> 0, total |-> 0,
   errlogs |-> 0, requests |-> 0, processed |-> 0,
   resp |-> [status |-> 0, body |-> ""], raised |-> <<>>, last |-> NoStep,
   since_id |-> 0, seen |-> <<>>]

\* products[] of the answer to GET products.json: id and the ids of
\* variants[].  A variant id is the pair of the product id and a number: the
\* remote never gives the variant of one product to another, so the create of
\* line 274 meets no mapping of another product with the same variant id.
ProductPayload(id, vs) == [id |-> id, variants |-> [i \in 1..Len(vs) |-> <<id, vs[i]>>]]

\* pimport before any call.  n: calls so far; payloads: products[] of the
\* answer; fails: for each product the position of the variant whose
\* processing raises (0: none); status: the HTTP status; job: the status of
\* the job record; archived: the mappings the searches of line 164 found
\* archived
NoProductImport ==
  [n |-> 0, inst |-> 0, payloads |-> <<>>, fails |-> <<>>, status |-> 0, job |-> "none",
   created |-> 0, updated |-> 0, errors |-> 0, raised |-> FALSE, archived |-> {}]

\* no call of process_refund_in_shopify yet.  m: the mapping; remote: the
\* remote created the refund; result: True returned ("ok") or UserError
\* raised ("error"); f: what failed
NoIssue == [m |-> 0, remote |-> FALSE, result |-> "none", full |-> FALSE, f |-> "none"]

\* a job that has not started: pc, the instance, the identifiers still to
\* import, db: the records the job's transaction sees (its snapshot and its
\* own changes), base: the number of records of the snapshot, wrote: the
\* orders of the snapshot it has written, stale: those written by the
\* transactions committed since, n: the imports it has started
NoTx ==
  [pc |-> "idle", inst |-> 0, queue |-> <<>>,
   db |-> [orders |-> <<>>, mappings |-> <<>>, moves |-> <<>>, rmaps |-> <<>>,
           products |-> <<>>, partners |-> <<>>],
   base |-> [orders |-> 0, mappings |-> 0, products |-> 0, partners |-> 0],
   wrote |-> {}, stale |-> {}, errors |-> 0, n |-> 0]

Db ==
  [orders |-> orders, mappings |-> mappings, moves |-> moves, rmaps |-> rmaps,
   products |-> products, partners |-> partners]

SetDb(db) ==
  /\ orders' = db.orders
  /\ mappings' = db.mappings
  /\ moves' = db.moves
  /\ rmaps' = db.rmaps
  /\ products' = db.products
  /\ partners' = db.partners

\* the state before any import, with the customers ps in Odoo
InitOf(ps) ==
  /\ orders = <<>>
  /\ mappings = <<>>
  /\ moves = <<>>
  /\ rmaps = <<>>
  /\ jobs = <<>>
  /\ run = Idle
  /\ events = 0
  /\ rejected = {}
  /\ products = <<>>
  /\ partners = ps
  /\ pmaps = <<>>
  /\ templates = <<>>
  /\ variants = <<>>
  /\ pimport = NoProductImport
  /\ txs = [j \in Jobs |-> NoTx]
  /\ issued = NoIssue

Init == InitOf(<<>>)

Running == run.pc \in {"fetch", "process"}

\* lines 487-515: the job record created in_progress, the counters zeroed.
\* n: the number of orders the remote holds during this run.
StartImportOf(maxn) ==
  /\ ~Running
  /\ Len(jobs) < MaxRuns
  /\ \E inst \in Instances, n \in 0..maxn :
       run' = [Idle EXCEPT !.pc = "fetch", !.inst = inst, !.n = n,
                           !.job = Len(jobs) + 1]
  /\ jobs' = Append(jobs, "in_progress")
  /\ UNCHANGED <<orders, mappings, moves, rmaps, events, rejected, products, partners, catalog, txs, issued>>

StartImport == StartImportOf(MaxRemote)

\* the remote's answer to limit=PageLimit, since_id=since: its first
\* PageLimit orders with a greater identifier, in increasing order
RemotePage(n, since) ==
  [i \in 1..Min(PageLimit, n - Min(n, since)) |-> since + i]

\* SinceId reading the first identifier of the preceding page instead of the
\* last
SinceIdFirstOfPage(r) ==
  IF r.page = <<>> THEN 0 ELSE r.page[1]

\* lines 519-521: the since_id parameter of the next request, 0 when the
\* request carries none (last_id is None before the first page)
SinceId(r) ==
  IF r.last_id # 0 THEN r.last_id ELSE 0

HttpErrors == {429, 500}
Bodies == {"throttled", "oops"}

\* str() of the UserError raised at lines 533-534
HttpErrorMessage(status, body) == <<"Failed to import orders - HTTP", status, body>>

\* OuterHandler raising a message that leaves str(e) out
OuterHandlerBare(r, msg) ==
  [r EXCEPT !.pc = "raised", !.errlogs = @ + 1,
            !.raised = Append(@, <<"Exception during order import">>)]

\* lines 851-859: the outer handler logs and raises a UserError that
\* embeds str(e)
OuterHandler(r, msg) ==
  [r EXCEPT !.pc = "raised", !.errlogs = @ + 1,
            !.raised = Append(@, <<"Exception during order import", msg>>)]

\* JobStatus with the job failed when an order failed
JobStatusStrict(r, status) ==
  IF r.pc = "raised" \/ (r.pc = "done" /\ r.errors > 0) THEN "failed"
  ELSE IF r.pc = "done" THEN "done"
  ELSE status

\* job.write at lines 526, 838 and 852
JobStatus(r, status) ==
  IF r.pc = "raised" THEN "failed"
  ELSE IF r.pc = "done" THEN "done"
  ELSE status

\* lines 518-541 and 837-859: one page request
FetchPage ==
  /\ run.pc = "fetch"
  /\ \E status \in HttpErrors \cup {200, -1}, body \in Bodies :
       LET r == [run EXCEPT !.requests = @ + 1,
                            !.since_id = SinceId(run),
                            !.resp = [status |-> status,
                                      body |-> IF status \in HttpErrors THEN body ELSE ""]]
           chunk == RemotePage(run.n, SinceId(run))
           r2 == IF status \in HttpErrors
                   THEN OuterHandler([r EXCEPT !.errlogs = @ + 1],
                                     HttpErrorMessage(status, body))
                 ELSE IF status = -1 THEN OuterHandler(r, <<"ConnectionError">>)
                 ELSE IF chunk = <<>> THEN [r EXCEPT !.pc = "done"]
                 ELSE [r EXCEPT !.pc = "process", !.page = chunk, !.idx = 1,
                                !.total = @ + Len(chunk)]
       IN /\ status \notin HttpErrors => body = "oops"
          /\ run' = r2
          /\ jobs' = [jobs EXCEPT ![run.job] = JobStatus(r2, @)]
  /\ UNCHANGED <<orders, mappings, moves, rmaps, events, rejected, products, partners, catalog, txs, issued>>

\* AfterPage without the test of line 833: only an empty page ends the loop
AfterPageUntilEmpty(r) ==
  IF r.idx <= Len(r.page) THEN r
  ELSE [r EXCEPT !.pc = "fetch", !.last_id = r.page[Len(r.page)]]

\* lines 833-835 after the last order of a page
AfterPage(r) ==
  IF r.idx <= Len(r.page) THEN r
  ELSE IF Len(r.page) < PageLimit THEN [r EXCEPT !.pc = "done"]
  ELSE [r EXCEPT !.pc = "fetch", !.last_id = r.page[Len(r.page)]]

\* OrderHandler re-raising after it has counted and logged
OrderHandlerRaise(r, err) ==
  IF err THEN [r EXCEPT !.errors = @ + 1, !.errlogs = @ + 1, !.pc = "raised"] ELSE r

\* lines 824-831: the handler of the per-order try block
OrderHandler(r, err) ==
  IF err THEN [r EXCEPT !.errors = @ + 1, !.errlogs = @ + 1] ELSE r

\* lines 543-850: one iteration of the loop over the page
ProcessOrderOf(PS, FS) ==
  /\ run.pc = "process"
  /\ UNCHANGED <<events, catalog, txs, issued>>
  /\ \E p \in PS[run.page[run.idx]], f \in FS :
       \E s \in {ImportOne(Db, run.inst, p, f)} :
         \E r \in {AfterPage(OrderHandler(
                      [run EXCEPT !.idx = @ + 1,
                                  !.processed = @ + 1,
                                  !.seen = Append(@, p.id),
                                  !.created = @ + s.created,
                                  !.updated = @ + s.updated,
                                  !.last = [p |-> p, o |-> s.o, existing |-> s.existing,
                                            err |-> s.err, status |-> s.status, f |-> f]],
                      s.err))} :
           /\ f = "none" \/ s.hit
           /\ SetDb(s.db)
           /\ rejected' = rejected \cup s.rejected
           /\ run' = r
           /\ jobs' = [jobs EXCEPT ![run.job] = JobStatus(r, @)]

ProcessOrder == ProcessOrderOf([id \in RemoteIds |-> Payloads(id)], EnvFailures)

\* ------------------------------------------------------------------ orders created in Odoo
LocalOrder(sync) ==
  [ref |-> 0, src |-> "odoo", st |-> "draft",
   lines |-> <<[prod |-> LocalProduct, qty |-> 1, pu |-> 3 * Cent]>>,
   inv |-> NoInvoice, sync |-> sync, exp |-> "not_exported", status |-> NoStatus,
   partner |-> 0]

\* _create_shopify_mappings: a pending mapping with an empty external id for
\* every connected instance that has none for the order; rejected: the key
\* of the create the unique constraint has refused
RECURSIVE CreateShopifyMappings(_, _, _)
CreateShopifyMappings(db, o, insts) ==
  IF insts = {} THEN [db |-> db, rejected |-> {}]
  ELSE LET inst == CHOOSE i \in insts : \A j \in insts : i <= j
           has == \E k \in Visible(db.mappings) :
                     db.mappings[k].order = o /\ db.mappings[k].inst = inst
           d == [db EXCEPT !.mappings = Append(@, NewMapping(0, o, inst, "pending")),
                           !.orders[o].exp = "pending"]
       IN IF has THEN CreateShopifyMappings(db, o, insts \ {inst})
          ELSE IF KeyTaken(db.mappings, 0, inst, 0)
            THEN [db |-> db, rejected |-> {<<0, inst>>}]
          ELSE CreateShopifyMappings(d, o, insts \ {inst})

\* SaleOrder.create for a sync-enabled order entered in Odoo, before the
\* first import run (later orders differ from these only by their position);
\* maxl: the number of such orders.  When the unique constraint rejects a
\* pending mapping the create raises and its transaction is rolled back.
CreateLocalOrderOf(maxl) ==
  /\ run.pc = "idle"
  /\ Cardinality({k \in 1..Len(orders) : orders[k].src = "odoo"}) < maxl
  /\ LET d == [Db EXCEPT !.orders = Append(@, LocalOrder(TRUE))]
         c == CreateShopifyMappings(d, Len(orders) + 1, Instances)
     IN IF c.rejected = {}
          THEN SetDb(c.db) /\ UNCHANGED rejected
          ELSE /\ rejected' = rejected \cup c.rejected
               /\ UNCHANGED <<orders, mappings, moves, rmaps, products, partners>>
  /\ UNCHANGED <<jobs, run, events, catalog, txs, issued>>

CreateLocalOrder == CreateLocalOrderOf(MaxLocal)

\* an identifier the remote can give to an order it creates
FreshIds(inst) ==
  {id \in 1..MaxRemote :
     /\ \A k \in 1..Len(mappings) : ~(mappings[k].sid = id /\ mappings[k].inst = inst)
     /\ \A k \in 1..Len(orders) : orders[k].ref # id}

\* ExportSingle creating a mapping for the order it has created on the
\* remote, whether the order had a pending one or not
ExportSingleNewMapping(db, inst, o, ok, id) ==
  LET m == FirstIdx({k \in Visible(db.mappings) :
                       db.mappings[k].order = o /\ db.mappings[k].inst = inst})
  IN IF ~ok THEN [db EXCEPT !.orders[o].exp = "error"]
     ELSE IF m # 0 /\ db.mappings[m].sid # 0
       THEN [db EXCEPT !.mappings[m].sync = "synced", !.orders[o].exp = "exported"]
     ELSE [db EXCEPT !.mappings = Append(@, NewMapping(id, o, inst, "synced")),
                     !.orders[o].exp = "exported"]

\* _export_single_order_to_shopify with _create_order_in_shopify and
\* _update_order_in_shopify; ok: the remote answered 201 (create) or 200
\* (update); id: the identifier the remote gave to a created order
ExportSingle(db, inst, o, ok, id) ==
  LET m == FirstIdx({k \in Visible(db.mappings) :
                       db.mappings[k].order = o /\ db.mappings[k].inst = inst})
  IN IF ~ok THEN [db EXCEPT !.orders[o].exp = "error"]
     ELSE IF m # 0 /\ db.mappings[m].sid # 0
       THEN [db EXCEPT !.mappings[m].sync = "synced", !.orders[o].exp = "exported"]
     ELSE IF m # 0
       THEN [db EXCEPT !.mappings[m].sid = id, !.mappings[m].sync = "synced",
                       !.orders[o].exp = "exported"]
     ELSE [db EXCEPT !.mappings = Append(@, NewMapping(id, o, inst, "synced")),
                     !.orders[o].exp = "exported"]

\* export_orders_to_shopify for one order: orders imported from the remote
\* are skipped
ExportOrder ==
  /\ ~Running
  /\ \E o \in 1..Len(orders), inst \in Instances, ok \in BOOLEAN :
       /\ orders[o].src # "shopify"
       /\ \E id \in (IF ok THEN FreshIds(inst) ELSE {0}) :
            SetDb(ExportSingle(Db, inst, o, ok, id))
  /\ UNCHANGED <<jobs, run, events, rejected, catalog, txs, issued>>

\* the answers the remote can give to the export of order o: the update of
\* an order it knows is accepted or refused; a created order gets an
\* identifier the remote has not used
RemoteAnswers(db, inst, o) ==
  LET m == FirstIdx({k \in Visible(db.mappings) :
                       db.mappings[k].order = o /\ db.mappings[k].inst = inst})
      used == {db.mappings[k].sid : k \in {j \in 1..Len(db.mappings) : db.mappings[j].inst = inst}}
              \cup {db.orders[k].ref : k \in 1..Len(db.orders)}
  IN IF m # 0 /\ db.mappings[m].sid # 0
       THEN {[ok |-> b, id |-> 0] : b \in BOOLEAN}
       ELSE {[ok |-> FALSE, id |-> 0]}
            \cup {[ok |-> TRUE, id |-> id] : id \in (1..MaxRemote) \ used}

\* the answers to a loop of exports: two created orders never get the same
\* identifier on one instance
AnswersFor(db, pairs) ==
  {ans \in [pairs -> [ok : BOOLEAN, id : 0..MaxRemote]] :
     /\ \A pr \in pairs : ans[pr] \in RemoteAnswers(db, pr[2], pr[1])
     /\ \A pr, qr \in pairs :
          pr # qr /\ pr[2] = qr[2] /\ ans[pr].id # 0 => ans[pr].id # ans[qr].id}

\* the loops over orders and, within, over instances, each in search order
RECURSIVE ExportAll(_, _, _)
ExportAll(db, pairs, ans) ==
  IF pairs = {} THEN db
  ELSE LET pr == CHOOSE x \in pairs :
                   \A y \in pairs : x[1] < y[1] \/ (x[1] = y[1] /\ x[2] <= y[2])
       IN ExportAll(ExportSingle(db, pr[2], pr[1], ans[pr].ok, ans[pr].id),
                    pairs \ {pr}, ans)

\* export_single_order_to_shopify: the order is handed to
\* _export_single_order_to_shopify whatever its source
ExportSingleOrder ==
  /\ ~Running
  /\ \E o \in 1..Len(orders), inst \in Instances :
       \E ans \in AnswersFor(Db, {<<o, inst>>}) :
         SetDb(ExportAll(Db, {<<o, inst>>}, ans))
  /\ UNCHANGED <<jobs, run, events, rejected, catalog, txs, issued>>

\* sale.order action_export_to_shopify on one order: skipped when its source
\* is 'shopify', else exported to every connected instance
ActionExportToShopify ==
  /\ ~Running
  /\ \E o \in 1..Len(orders) :
       LET pairs == IF orders[o].src = "shopify" THEN {} ELSE {o} \X Instances
       IN \E ans \in AnswersFor(Db, pairs) : SetDb(ExportAll(Db, pairs, ans))
  /\ UNCHANGED <<jobs, run, events, rejected, catalog, txs, issued>>

\* _run_order_export_cron: every confirmed sync-enabled order of source
\* 'odoo' that is pending export, to every connected instance
RunOrderExportCron ==
  /\ ~Running
  /\ LET pending == {o \in 1..Len(orders) :
                       /\ orders[o].sync
                       /\ orders[o].exp = "pending"
                       /\ orders[o].src = "odoo"
                       /\ orders[o].st = "sale"}
     IN \E ans \in AnswersFor(Db, pending \X Instances) :
          SetDb(ExportAll(Db, pending \X Instances, ans))
  /\ UNCHANGED <<jobs, run, events, rejected, catalog, txs, issued>>

\* a user confirms an order entered in Odoo: the write of 'state' goes
\* through the override of write
ConfirmLocalOrder ==
  /\ ~Running
  /\ \E o \in 1..Len(orders) :
       /\ orders[o].src = "odoo"
       /\ orders[o].st = "draft"
       /\ SetDb(WriteOrderState(Db, o, "sale"))
  /\ UNCHANGED <<jobs, run, events, rejected, catalog, txs, issued>>

\* ------------------------------------------------------------------ refunds issued from Odoo
\* process_refund_in_shopify once the remote has accepted the refund and
\* returned it as refund: the mapping marked synced, the order invoiced, the
\* refund reconciled.  A failure (no journal, no invoice) raises to the
\* caller, whose transaction is rolled back.
RefundEventOf(RS) ==
  /\ ~Running
  /\ events < MaxEvents
  /\ events' = events + 1
  /\ \E m \in 1..Len(mappings), refund \in RS :
       /\ mappings[m].sid # 0
       /\ LET o == mappings[m].order
              d == [Db EXCEPT !.mappings[m].sync = "synced"]
              s == EnsureInvoice([db |-> d, o |-> o, err |-> FALSE, hit |-> FALSE,
                                  invoice |-> FALSE], "none")
          IN SetDb(SyncShopifyRefunds(s.db, mappings[m].inst, o, m, <<refund>>, "none"))
  /\ UNCHANGED <<jobs, run, rejected, catalog, txs, issued>>

Next ==
  \/ StartImport
  \/ FetchPage
  \/ ProcessOrder
  \/ CreateLocalOrder
  \/ ExportOrder

Spec == Init /\ [][Next]_vars

\* ------------------------------------------------------------------ imports of refunded orders
RefundA == Refund(1, <<-15>>, <<RItem("A", 1, 15, 0, 10)>>, 0, <<>>)
RefundA2 == Refund(1, <<-20>>, <<RItem("A", 2, 20, 0, 10)>>, 0, <<>>)
RefundB == Refund(2, <<>>, <<>>, 5, <<>>)
RefundNoId == Refund(0, <<-1>>, <<>>, 0, <<>>)

PayloadsR(id) ==
  {Payload(id, TRUE, <<ItemA>>, <<>>, 0, FALSE, <<>>),
   Payload(id, TRUE, <<ItemA>>, <<>>, 0, FALSE, <<RefundA>>),
   Payload(id, TRUE, <<ItemA>>, <<>>, 0, FALSE, <<RefundB, RefundNoId, RefundA2, RefundB>>),
   Payload(id, TRUE, <<ItemA>>, <<>>, 0, TRUE, <<RefundA>>)}

ProcessOrderR == ProcessOrderOf([id \in RemoteIds |-> PayloadsR(id)], {"none", "refund"})

RefundEvent == RefundEventOf({RefundA, RefundB})

NextR ==
  \/ StartImport
  \/ FetchPage
  \/ ProcessOrderR
  \/ RefundEvent

SpecR == Init /\ [][NextR]_vars

\* ------------------------------------------------------------------ refund arithmetic
CalcRefunds ==
  {Refund(1, tx, items, ship, adj) :
     tx \in {<<>>, <<-15>>, <<16>>, <<10, 7>>, <<5, -5>>},
     items \in {<<>>,
                <<RItem("A", 1, 15, 0, 10)>>,
                <<RItem("A", 2, 0, 0, 0)>>,
                <<RItem("A", 2, 15, 1, 10), RItem("B", 1, 0, 0, 7)>>,
                <<RItem("C", 0, 5, 0, 0)>>},
     ship \in {0, 1},
     adj \in {<<>>, <<-2>>, <<0, 1>>}}

PayloadsCalc(id) ==
  {Payload(id, TRUE, <<ItemA>>, <<>>, 0, FALSE, <<>>),
   Payload(id, TRUE, <<ItemA>>, <<>>, 0, TRUE, <<>>)}

ProcessOrderCalc == ProcessOrderOf([id \in RemoteIds |-> PayloadsCalc(id)], {"none"})

RefundEventCalc == RefundEventOf(CalcRefunds)

NextCalc ==
  \/ StartImport
  \/ FetchPage
  \/ ProcessOrderCalc
  \/ RefundEventCalc

SpecCalc == Init /\ [][NextCalc]_vars

\* ------------------------------------------------------------------ imports alone
NextImport ==
  \/ StartImport
  \/ FetchPage
  \/ ProcessOrder

SpecImport == Init /\ [][NextImport]_vars

\* ------------------------------------------------------------------ pagination
PayloadsPaged(id) ==
  {Payload(id, TRUE, <<ItemA>>, <<>>, 0, FALSE, <<>>),
   Payload(id, TRUE, <<ItemA, ItemBad>>, <<>>, 0, FALSE, <<>>)}

StartImportPaged == StartImportOf(MaxPaged)

ProcessOrderPaged == ProcessOrderOf([id \in RemoteIds |-> PayloadsPaged(id)], {"none", "invoice", "mapping"})

NextPaged ==
  \/ StartImportPaged
  \/ FetchPage
  \/ ProcessOrderPaged

SpecPaged == Init /\ [][NextPaged]_vars

\* an import run is one sequential call: each of its steps is taken
FairSpec == SpecPaged /\ WF_vars(FetchPage) /\ WF_vars(ProcessOrderPaged)

\* ------------------------------------------------------------------ orders entered in Odoo
CreateLocalOrders == CreateLocalOrderOf(MaxLocal + 1)

PayloadsLocal(id) ==
  {Payload(id, TRUE, <<ItemA>>, <<>>, 0, FALSE, <<>>),
   Payload(id, TRUE, <<ItemA>>, <<>>, 0, TRUE, <<>>)}

ProcessOrderLocal == ProcessOrderOf([id \in RemoteIds |-> PayloadsLocal(id)], {"none"})

NextLocal ==
  \/ StartImport
  \/ FetchPage
  \/ ProcessOrderLocal
  \/ CreateLocalOrders
  \/ ExportOrder

SpecLocal == Init /\ [][NextLocal]_vars

\* ------------------------------------------------------------------ archived mappings
\* a user archives a mapping record (field active, line 28)
ArchiveMapping ==
  /\ ~Running
  /\ \E m \in 1..Len(mappings) :
       /\ mappings[m].active
       /\ mappings' = [mappings EXCEPT ![m].active = FALSE]
  /\ UNCHANGED <<orders, moves, rmaps, jobs, run, events, rejected, products, partners, catalog, txs, issued>>

PayloadsArchive(id) ==
  {Payload(id, TRUE, <<ItemA>>, <<>>, 0, FALSE, <<>>),
   Payload(id, FALSE, <<ItemA>>, <<>>, 0, FALSE, <<>>)}

ProcessOrderArchive == ProcessOrderOf([id \in RemoteIds |-> PayloadsArchive(id)], {"none"})

NextArchive ==
  \/ StartImport
  \/ FetchPage
  \/ ProcessOrderArchive
  \/ ArchiveMapping

SpecArchive == Init /\ [][NextArchive]_vars

\* ------------------------------------------------------------------ line items
LineItems ==
  {[name |-> "A", sku |-> "A", qty |-> q, price |-> pr, allocs |-> al] :
     q \in 0..MaxQty, pr \in {10}, al \in {<<>>, <<2>>, <<1, 2>>, <<BadPrice, 4>>}}

PayloadsLines(id) ==
  {Payload(id, TRUE, <<it>>, <<>>, 0, FALSE, <<>>) : it \in LineItems}
  \cup {Payload(id, TRUE, <<ItemB, ItemA>>, <<5>>, 2, FALSE, <<>>)}

ProcessOrderLines == ProcessOrderOf([id \in RemoteIds |-> PayloadsLines(id)], {"none"})

NextLines ==
  \/ StartImport
  \/ FetchPage
  \/ ProcessOrderLines

SpecLines == Init /\ [][NextLines]_vars

\* ------------------------------------------------------------------ placeholder products
ProductItems ==
  {[name |-> n, sku |-> k, qty |-> 1, price |-> 10, allocs |-> <<>>] :
     n \in {"A", "B"}, k \in {"A", "B", NoSkuKey, NullSku}}

PayloadsProducts(id) ==
  {Payload(id, TRUE, <<it>>, <<>>, 0, FALSE, <<>>) : it \in ProductItems}
  \cup {Payload(id, TRUE, <<ItemA, ItemB, [ItemA EXCEPT !.sku = "B"]>>, <<5>>, 0, FALSE, <<>>),
         Payload(id, TRUE, <<ItemA>>, <<>>, 0, FALSE,
                 <<Refund(1, <<>>, <<RItem("B", 1, 7, 0, 7)>>, 0, <<>>)>>)}

ProcessOrderProducts == ProcessOrderOf([id \in RemoteIds |-> PayloadsProducts(id)], {"none"})

NextProducts ==
  \/ StartImport
  \/ FetchPage
  \/ ProcessOrderProducts

SpecProducts == Init /\ [][NextProducts]_vars

\* ------------------------------------------------------------------ status values
FinancialValues ==
  {<<>>, <<"pending">>, <<"authorized">>, <<"partially", " ", "paid">>,
   <<"partially", "_", "paid">>, <<"paid">>, <<"partially", "_", "refunded">>,
   <<"refunded">>, <<"voided">>, <<"chargeback">>}

FulfillmentValues ==
  {<<>>, <<"unfulfilled">>, <<"partial">>, <<"fulfilled">>, <<"restocked">>, <<"shipped">>}

DeliveryValues ==
  {<<>>, <<"shipping">>, <<"pickup">>, <<"local", "_", "delivery">>, <<"none">>, <<"drone">>}

PayloadsStatus(id) ==
  {WithStatus(Payload(id, TRUE, <<ItemA>>, <<>>, 0, FALSE, <<>>), fin, ful, <<>>, FALSE) :
     fin \in FinancialValues, ful \in FulfillmentValues}
  \cup {WithStatus(Payload(id, TRUE, <<ItemA>>, ship, 0, FALSE, <<>>), <<>>, <<>>, cat, noship) :
          ship \in {<<>>, <<5>>}, cat \in DeliveryValues, noship \in BOOLEAN}

ProcessOrderStatus == ProcessOrderOf([id \in RemoteIds |-> PayloadsStatus(id)], {"none"})

StartImportStatus == StartImportOf(1)

NextStatus ==
  \/ StartImportStatus
  \/ FetchPage
  \/ ProcessOrderStatus

SpecStatus == Init /\ [][NextStatus]_vars

\* ------------------------------------------------------------------ confirmation, invoice, cancellation
\* a user cancels an order in Odoo: the write of 'state' goes through the
\* override of write
CancelLocalOrder ==
  /\ ~Running
  /\ \E o \in 1..Len(orders) :
       /\ orders[o].st # "cancel"
       /\ SetDb(WriteOrderState(Db, o, "cancel"))
  /\ UNCHANGED <<jobs, run, events, rejected, catalog, txs, issued>>

PayloadsInvoice(id) ==
  {Payload(id, TRUE, <<ItemA>>, <<>>, 0, FALSE, <<>>),
   Payload(id, TRUE, <<ItemA>>, <<>>, 0, TRUE, <<>>),
   Payload(id, TRUE, <<ItemB, ItemA>>, <<5>>, 2, FALSE, <<>>)}

ProcessOrderInvoice ==
  ProcessOrderOf([id \in RemoteIds |-> PayloadsInvoice(id)], {"none", "cancel", "invoice"})

NextInvoice ==
  \/ StartImport
  \/ FetchPage
  \/ ProcessOrderInvoice
  \/ CancelLocalOrder

SpecInvoice == Init /\ [][NextInvoice]_vars

\* ------------------------------------------------------------------ the export paths
NextExport ==
  \/ StartImport
  \/ FetchPage
  \/ ProcessOrderLocal
  \/ CreateLocalOrder
  \/ ConfirmLocalOrder
  \/ ExportOrder
  \/ ExportSingleOrder
  \/ ActionExportToShopify
  \/ RunOrderExportCron

SpecExport == Init /\ [][NextExport]_vars

\* ------------------------------------------------------------------ shipping and discount lines
PayloadsSynth(id) ==
  {Payload(id, TRUE, <<ItemA>>, ship, disc, FALSE, <<>>) :
     ship \in {<<>>, <<0>>, <<5>>, <<0, 5>>, <<5, 7>>}, disc \in {0, 2}}

ProcessOrderSynth == ProcessOrderOf([id \in RemoteIds |-> PayloadsSynth(id)], {"none"})

NextSynth ==
  \/ StartImport
  \/ FetchPage
  \/ ProcessOrderSynth

SpecSynth == Init /\ [][NextSynth]_vars

\* ------------------------------------------------------------------ the invoice line pool
ItemA1 == [ItemA EXCEPT !.qty = 1, !.allocs = <<>>]

PoolRefund(id, name, qty) == Refund(id, <<>>, <<RItem(name, qty, 10 * qty, 0, 10)>>, 0, <<>>)

PoolRefunds ==
  {<<PoolRefund(1, "A", 1)>>,
   <<PoolRefund(1, "A", 1), PoolRefund(2, "A", 1), PoolRefund(3, "A", 1)>>,
   <<PoolRefund(1, "A", 2), PoolRefund(2, "A", 1), PoolRefund(3, "A", 2)>>,
   <<Refund(1, <<>>, <<RItem("A", 1, 10, 0, 10), RItem("B", 1, 7, 0, 7),
                       RItem("A", 2, 20, 0, 10)>>, 0, <<>>)>>}

PayloadsPool(id) ==
  {Payload(id, TRUE, items, <<>>, 0, FALSE, rs) :
     items \in {<<ItemA>>, <<ItemA1, ItemB, ItemA>>}, rs \in PoolRefunds \cup {<<>>}}

ProcessOrderPool == ProcessOrderOf([id \in RemoteIds |-> PayloadsPool(id)], {"none"})

StartImportPool == StartImportOf(1)

NextPool ==
  \/ StartImportPool
  \/ FetchPage
  \/ ProcessOrderPool

SpecPool == Init /\ [][NextPool]_vars

\* ------------------------------------------------------------------ refunds whose reconcile() fails
PayloadsRec(id) ==
  {Payload(id, TRUE, <<ItemA>>, <<>>, 0, c, rs) :
     c \in BOOLEAN, rs \in {<<>>, <<RefundA>>, <<RefundA, RefundNoId, RefundB>>}}

ProcessOrderRec == ProcessOrderOf([id \in RemoteIds |-> PayloadsRec(id)], {"none", "reconcile"})

NextRec ==
  \/ StartImportStatus
  \/ FetchPage
  \/ ProcessOrderRec

SpecRec == Init /\ [][NextRec]_vars

\* ------------------------------------------------------------------ the reversal target
PayloadsRev(id) ==
  {Payload(id, TRUE, <<ItemA>>, <<>>, 0, c, rs) :
     c \in BOOLEAN, rs \in {<<>>, <<RefundA>>}}

ProcessOrderRev == ProcessOrderOf([id \in RemoteIds |-> PayloadsRev(id)], {"none", "cancel", "post"})

NextRev ==
  \/ StartImportStatus
  \/ FetchPage
  \/ ProcessOrderRev

SpecRev == Init /\ [][NextRev]_vars

\* ------------------------------------------------------------------ products of refund lines
\* a line item whose 'sku' is null, one without the key 'sku', one with
\* neither 'name' nor 'sku'
ItemNull == [name |-> "X", sku |-> NullSku, qty |-> 1, price |-> 7, allocs |-> <<>>]
ItemNoSku == [name |-> "A", sku |-> NoSkuKey, qty |-> 2, price |-> 10, allocs |-> <<>>]
ItemBare == [name |-> NoNameKey, sku |-> NoSkuKey, qty |-> 1, price |-> 7, allocs |-> <<>>]

\* refund_line_items[] entry for qty units of a line item: its line_item is
\* the line item as the order carries it
RItemOf(item, qty) ==
  [name |-> item.name, sku |-> item.sku, qty |-> qty, sub |-> item.price * qty, tax |-> 0,
   price |-> item.price]

RefundOf(item) == Refund(1, <<>>, <<RItemOf(item, 1)>>, 0, <<>>)

PayloadsResolve(id) ==
  {Payload(id, TRUE, <<ItemA>>, <<>>, 0, FALSE, <<RefundOf(ItemA)>>),
   Payload(id, TRUE, <<ItemNull>>, <<>>, 0, FALSE, <<RefundOf(ItemNull)>>),
   Payload(id, TRUE, <<ItemNoSku>>, <<>>, 0, FALSE, <<RefundOf(ItemNoSku)>>),
   Payload(id, TRUE, <<ItemB, ItemNoSku>>, <<>>, 0, FALSE, <<>>),
   Payload(id, TRUE, <<ItemBare>>, <<>>, 0, FALSE, <<RefundOf(ItemBare)>>),
   Payload(id, TRUE, <<ItemNull, ItemNoSku>>, <<>>, 0, FALSE, <<RefundOf(ItemNoSku)>>)}

ProcessOrderResolve == ProcessOrderOf([id \in RemoteIds |-> PayloadsResolve(id)], {"none"})

NextResolve ==
  \/ StartImport
  \/ FetchPage
  \/ ProcessOrderResolve

SpecResolve == Init /\ [][NextResolve]_vars

\* ------------------------------------------------------------------ payment gateways
GatewayLists == {<<>>, <<"paypal">>, <<"paypal", "paypal">>, <<"paypal", "cash">>, <<"">>}
TransactionGateways == {<<>>, <<"paypal">>, <<"cash", "cash">>, <<"", "card">>, <<"card", "paypal">>}

PayloadsPay(id) ==
  {[Payload(id, TRUE, <<ItemA>>, <<>>, 0, FALSE, <<>>) EXCEPT !.gateways = g, !.txgw = t] :
     g \in GatewayLists, t \in TransactionGateways}

ProcessOrderPay == ProcessOrderOf([id \in RemoteIds |-> PayloadsPay(id)], {"none"})

StartImportPay == StartImportOf(1)

NextPay ==
  \/ StartImportPay
  \/ FetchPage
  \/ ProcessOrderPay

SpecPay == Init /\ [][NextPay]_vars

\* ------------------------------------------------------------------ product import
\* line 164: the mappings of the product for the instance, archived ones
\* included
ExistingMappings(maps, inst, pid) ==
  {k \in 1..Len(maps) : maps[k].pid = pid /\ maps[k].inst = inst}

\* lines 680-749, for a product whose variants each have their own
\* combination of option values: the variant of the template that carries the
\* variant id (0: none, a variant is created)
MatchVariant(vs, tmpl, vid) ==
  FirstIdx({j \in 1..Len(vs) : vs[j].ext = vid /\ vs[j].tmpl = tmpl})

\* lines 226-291: the variants of the payload from position i on; at position
\* fail the processing raises.  The mapping of the variant id among the
\* product's mappings is written, or one is created.
RECURSIVE ImportVariants(_, _, _, _, _, _)
ImportVariants(st, inst, pp, tmpl, i, fail) ==
  IF i > Len(pp.variants) THEN st
  ELSE IF i = fail THEN [st EXCEPT !.raised = TRUE]
  ELSE LET vid == pp.variants[i]
           found == MatchVariant(st.variants, tmpl, vid)
           v == IF found # 0 THEN found ELSE Len(st.variants) + 1
           m == FirstIdx({k \in ExistingMappings(st.pmaps, inst, pp.id) :
                            st.pmaps[k].vid = vid})
           vals == [pid |-> pp.id, vid |-> vid, prod |-> v, inst |-> inst,
                    sync |-> "synced", active |-> TRUE]
       IN ImportVariants(
            [st EXCEPT !.variants = IF found # 0 THEN @
                                    ELSE Append(@, [tmpl |-> tmpl, ext |-> vid]),
                       !.pmaps = IF m # 0 THEN [@ EXCEPT ![m] = vals] ELSE Append(@, vals),
                       !.created = @ + (IF m = 0 THEN 1 ELSE 0),
                       !.updated = @ + (IF m # 0 /\ found # 0 THEN 1 ELSE 0),
                       !.processed = @ \cup {vid}],
            inst, pp, tmpl, i + 1, fail)

\* Deactivated leaving every mapping as it is
DeactivatedNone(maps, existing, processed) == maps

\* lines 295-301: the mappings found at line 164 whose variant was not
\* processed are archived
Deactivated(maps, existing, processed) ==
  [k \in 1..Len(maps) |->
     IF k \in existing /\ maps[k].vid \notin processed
       THEN [maps[k] EXCEPT !.active = FALSE] ELSE maps[k]]

\* lines 147-311: one product of the answer.  A product without variants is
\* skipped; the template is the one with the product's external id, else the
\* one of the product's first mapping, else a new one.
ImportProduct(st, inst, pp, fail) ==
  IF pp.variants = <<>> THEN st
  ELSE LET existing == ExistingMappings(st.pmaps, inst, pp.id)
           byId == FirstIdx({t \in 1..Len(st.templates) : st.templates[t].ext = pp.id})
           tmpl == IF byId # 0 THEN byId
                   ELSE IF existing # {}
                     THEN st.variants[st.pmaps[FirstIdx(existing)].prod].tmpl
                   ELSE Len(st.templates) + 1
           s1 == [st EXCEPT !.templates = IF tmpl <= Len(@)
                                            THEN [@ EXCEPT ![tmpl].ext = pp.id]
                                            ELSE Append(@, [ext |-> pp.id]),
                            !.processed = {},
                            !.archived = @ \cup {k \in existing : ~st.pmaps[k].active}]
           s2 == ImportVariants(s1, inst, pp, tmpl, 1, fail)
       IN IF s2.raised
            THEN [s2 EXCEPT !.raised = FALSE, !.errors = @ + 1]
            ELSE [s2 EXCEPT !.pmaps = Deactivated(@, existing, s2.processed)]

\* lines 145-311: the loop over products[]
RECURSIVE ImportProductsLoop(_, _, _, _, _)
ImportProductsLoop(st, inst, payloads, fails, i) ==
  IF i > Len(payloads) THEN st
  ELSE ImportProductsLoop(ImportProduct(st, inst, payloads[i], fails[i]),
                          inst, payloads, fails, i + 1)

VariantLists == {<<>>, <<1>>, <<2>>, <<1, 2>>}

\* the answers of the remote: no product, product 1, or product 1 and
\* product 2
ProductAnswers ==
  {<<>>} \cup {<<ProductPayload(1, vs)>> : vs \in VariantLists}
  \cup {<<ProductPayload(1, vs), ProductPayload(2, <<1>>)>> : vs \in VariantLists}

\* import_products_from_shopify(instance): a status other than 200 leaves a
\* failed job and raises (lines 99-114); otherwise every product of the
\* answer is imported and the job is done (116-327)
ImportProductsOf(answers, failures) ==
  /\ pimport.n < MaxProductImports
  /\ \E inst \in Instances, status \in {200, 500}, payloads \in answers :
       \E fails \in [1..Len(payloads) -> failures] :
         LET st == ImportProductsLoop(
                     [pmaps |-> pmaps, templates |-> templates, variants |-> variants,
                      created |-> 0, updated |-> 0, errors |-> 0, processed |-> {},
                      raised |-> FALSE, archived |-> {}],
                     inst, payloads, fails, 1)
         IN IF status # 200
              THEN /\ pimport' = [NoProductImport EXCEPT !.n = pimport.n + 1, !.inst = inst,
                                                         !.status = status, !.job = "failed",
                                                         !.raised = TRUE]
                   /\ UNCHANGED <<pmaps, templates, variants>>
              ELSE /\ pmaps' = st.pmaps
                   /\ templates' = st.templates
                   /\ variants' = st.variants
                   /\ pimport' = [n |-> pimport.n + 1, inst |-> inst, payloads |-> payloads,
                                  fails |-> fails, status |-> status, job |-> "done",
                                  created |-> st.created, updated |-> st.updated,
                                  errors |-> st.errors, raised |-> FALSE,
                                  archived |-> st.archived]
  /\ UNCHANGED <<orders, mappings, moves, rmaps, jobs, run, events, rejected, products, partners, txs, issued>>

ImportProducts == ImportProductsOf(ProductAnswers, {0, 1, 2})

NextVariants == ImportProducts

SpecVariants == Init /\ [][NextVariants]_vars

\* ------------------------------------------------------------------ customers
Emails == {"", "a@x"}

\* first_name and last_name of the billing address
NameParts ==
  {<<"", "">>, <<"Ann", "Smith">>, <<"", "Smith">>, <<NullName, "Smith">>,
   <<NullName, NullName>>}

PayloadsCustomers(id) ==
  {[Payload(id, TRUE, <<ItemA>>, <<>>, 0, FALSE, <<>>) EXCEPT
      !.email = e, !.first = n[1], !.last = n[2]] :
     e \in Emails, n \in NameParts}

\* the customers in Odoo before the first import
ExistingCustomers ==
  {<<>>,
   <<[name |-> <<"Zoe">>, email |-> "a@x"]>>,
   <<[name |-> <<"Zoe">>, email |-> "a@x"], [name |-> <<"Al">>, email |-> "a@x"]>>,
   <<[name |-> <<"Al">>, email |-> "a@x"], [name |-> <<"Al">>, email |-> "a@x"]>>}

InitCustomers == \E ps \in ExistingCustomers : InitOf(ps)

ProcessOrderCustomers ==
  ProcessOrderOf([id \in RemoteIds |-> PayloadsCustomers(id)], {"none"})

StartImportCustomers == StartImportOf(MaxRemote)

NextCustomers ==
  \/ StartImportCustomers
  \/ FetchPage
  \/ ProcessOrderCustomers

SpecCustomers == InitCustomers /\ [][NextCustomers]_vars

\* ------------------------------------------------------------------ mappings of orders entered in Odoo
\* SaleOrder.create for an order entered in Odoo without Shopify sync: no
\* mapping is created
CreatePlainOrder ==
  /\ run.pc = "idle"
  /\ Cardinality({k \in 1..Len(orders) : orders[k].src = "odoo"}) < MaxLocal + 1
  /\ SetDb([Db EXCEPT !.orders = Append(@, LocalOrder(FALSE))])
  /\ UNCHANGED <<jobs, run, events, rejected, catalog, txs, issued>>

\* write({'shopify_sync_enabled': True}) on an order entered in Odoo, by
\* action_enable_shopify_sync or a user: the pending mappings are created for
\* the instances that have none.  When the unique constraint rejects one the
\* write raises and its transaction is rolled back.
EnableShopifySync ==
  /\ ~Running
  /\ \E o \in 1..Len(orders) :
       /\ orders[o].src = "odoo"
       /\ LET c == CreateShopifyMappings([Db EXCEPT !.orders[o].sync = TRUE], o, Instances)
          IN IF c.rejected = {}
               THEN SetDb(c.db) /\ UNCHANGED rejected
               ELSE /\ rejected' = rejected \cup c.rejected
                    /\ UNCHANGED <<orders, mappings, moves, rmaps, products, partners>>
  /\ UNCHANGED <<jobs, run, events, catalog, txs, issued>>

NextMappings ==
  \/ StartImportStatus
  \/ FetchPage
  \/ ProcessOrderLocal
  \/ CreateLocalOrder
  \/ CreatePlainOrder
  \/ EnableShopifySync
  \/ ConfirmLocalOrder
  \/ ExportSingleOrder
  \/ RunOrderExportCron

SpecMappings == Init /\ [][NextMappings]_vars

\* ------------------------------------------------------------------ import jobs side by side
\* import_orders_from_shopify takes no lock and never commits: a job called
\* by _run_order_import_cron and one started by hand for the same instance
\* each run in a database transaction of their own (REPEATABLE READ, as Odoo
\* sets it), so each sees the records committed when it started and its own.
\* An INSERT whose key (shopify_order_id, instance_id) another transaction
\* holds waits for that transaction, and is rejected when it has committed;
\* the rejection aborts the transaction (the log create of the handler at
\* 826 fails in turn) and the job's records are rolled back.  A write on a
\* record another transaction has written since the snapshot fails the same
\* way.

\* the remote orders both jobs are given: order 1 has a line item whose
\* price float() rejects, order 2 is well formed; both have a name
PayloadsJobs(id) ==
  IF id = 1 THEN Payload(id, TRUE, <<ItemA, ItemBad>>, <<>>, 0, FALSE, <<>>)
  ELSE Payload(id, TRUE, <<ItemA>>, <<>>, 0, FALSE, <<>>)

\* the keys of the mappings number from + 1 on
KeysFrom(maps, from) ==
  {<<maps[k].sid, maps[k].inst>> : k \in (from + 1)..Len(maps)}

\* the keys the transaction of job j has inserted and not committed
HeldKeys(j) ==
  IF txs[j].pc = "process" THEN KeysFrom(txs[j].db.mappings, txs[j].base.mappings) ELSE {}

\* the orders of its snapshot the transaction of job j has written
HeldRows(j) == IF txs[j].pc = "process" THEN txs[j].wrote ELSE {}

ShiftLines(ls, base, d) ==
  [i \in 1..Len(ls) |-> [ls[i] EXCEPT !.prod = IF @ > base THEN @ + d ELSE @]]

\* a record of the transaction t as the database db stores it at the commit:
\* the records t created are numbered after those committed since its snapshot
ShiftOrder(o, t, db) ==
  [o EXCEPT !.partner = IF @ > t.base.partners
                          THEN @ + Len(db.partners) - t.base.partners ELSE @,
            !.lines = ShiftLines(@, t.base.products, Len(db.products) - t.base.products),
            !.inv.lines = ShiftLines(@, t.base.products, Len(db.products) - t.base.products)]

ShiftMapping(m, t, db) ==
  [m EXCEPT !.order = IF @ > t.base.orders THEN @ + Len(db.orders) - t.base.orders ELSE @]

\* the database after the commit of t
Commit(db, t) ==
  [db EXCEPT
     !.orders = [k \in 1..Len(@) |->
                   IF k \in t.wrote THEN ShiftOrder(t.db.orders[k], t, db) ELSE @[k]]
                \o [i \in 1..(Len(t.db.orders) - t.base.orders) |->
                      ShiftOrder(t.db.orders[t.base.orders + i], t, db)],
     !.mappings = [k \in 1..Len(@) |->
                     IF k <= t.base.mappings /\ t.db.mappings[k].order \in t.wrote
                       THEN t.db.mappings[k] ELSE @[k]]
                  \o [i \in 1..(Len(t.db.mappings) - t.base.mappings) |->
                        ShiftMapping(t.db.mappings[t.base.mappings + i], t, db)],
     !.products = @ \o SubSeq(t.db.products, t.base.products + 1, Len(t.db.products)),
     !.partners = @ \o SubSeq(t.db.partners, t.base.partners + 1, Len(t.db.partners))]

\* BeginImportFree with the jobs taking their turn: a job starts when no
\* other runs
BeginImportInTurn(j) == \A i \in Jobs : txs[i].pc # "process"

\* lines 932-947 and 494-515: a job starts importing the orders 1..n of the
\* remote for instance 1, whatever the other jobs do
BeginImportFree(j) == txs[j].pc # "process"

BeginImport ==
  /\ \E j \in Jobs, n \in 1..MaxRemote :
       /\ BeginImportFree(j)
       /\ txs[j].n < MaxJobRuns
       /\ txs' = [txs EXCEPT ![j] =
                    [pc |-> "process", inst |-> 1, queue |-> [i \in 1..n |-> i], db |-> Db,
                     base |-> [orders |-> Len(orders), mappings |-> Len(mappings),
                               products |-> Len(products), partners |-> Len(partners)],
                     wrote |-> {}, stale |-> {}, errors |-> 0, n |-> txs[j].n + 1]]
  /\ UNCHANGED <<orders, mappings, moves, rmaps, jobs, run, events, rejected, products,
                 partners, catalog, issued>>

\* lines 543-831 in the transaction of job j: one iteration of the loop
ProcessOrderJob ==
  /\ \E j \in Jobs :
       /\ txs[j].pc = "process"
       /\ txs[j].queue # <<>>
       /\ \E s \in {ImportOne(txs[j].db, txs[j].inst, PayloadsJobs(Head(txs[j].queue)), "none")} :
            \E keys \in {KeysFrom(s.db.mappings, Len(txs[j].db.mappings))},
               written \in {IF s.created = 0 /\ s.o # 0 /\ s.o <= txs[j].base.orders
                              THEN {s.o} ELSE {}} :
              /\ \A i \in Jobs \ {j} :
                   keys \cap HeldKeys(i) = {} /\ written \cap HeldRows(i) = {}
              /\ txs' = [txs EXCEPT ![j] =
                           IF \/ s.rejected # {}
                              \/ keys \cap KeysFrom(mappings, txs[j].base.mappings) # {}
                              \/ written \cap txs[j].stale # {}
                             THEN [NoTx EXCEPT !.pc = "aborted", !.n = txs[j].n]
                           ELSE [txs[j] EXCEPT !.db = s.db, !.queue = Tail(@),
                                               !.wrote = @ \cup written,
                                               !.errors = @ + (IF s.err THEN 1 ELSE 0)]]
  /\ UNCHANGED <<orders, mappings, moves, rmaps, jobs, run, events, rejected, products,
                 partners, catalog, issued>>

\* the loop is over and the caller commits the transaction of job j
CommitImport ==
  /\ \E j \in Jobs :
       /\ txs[j].pc = "process"
       /\ txs[j].queue = <<>>
       /\ SetDb(Commit(Db, txs[j]))
       /\ txs' = [i \in Jobs |->
                    IF i = j THEN [NoTx EXCEPT !.pc = "done", !.n = txs[j].n,
                                               !.errors = txs[j].errors]
                    ELSE IF txs[i].pc = "process"
                      THEN [txs[i] EXCEPT !.stale = @ \cup txs[j].wrote]
                    ELSE txs[i]]
  /\ UNCHANGED <<jobs, run, events, rejected, catalog, issued>>

NextJobs ==
  \/ BeginImport
  \/ ProcessOrderJob
  \/ CommitImport

SpecJobs == Init /\ [][NextJobs]_vars

\* ------------------------------------------------------------------ a refund issued to the remote
\* lines 1056-1096 once the remote has answered the POST with 200 or 201 and
\* the refund it created: the mapping written (refund amount, financial
\* status, synced), the status values written on the order, the order
\* invoiced and the refund reconciled.  full: refund_amount >= total_price;
\* f: what raises on the way.
IssueRefund(db, m, p, refund, full, f) ==
  LET o == db.mappings[m].order
      payment == IF full THEN "refunded" ELSE "partially_refunded"
      d1 == [db EXCEPT !.mappings[m].fin = payment, !.mappings[m].sync = "synced"]
      d2 == SetShopifyStatusValues(d1, o, [PrepareSaleOrderStatusVals(p) EXCEPT
                                             !.payment = payment])
      s == EnsureInvoice([db |-> d2, o |-> o, err |-> FALSE, hit |-> FALSE,
                          invoice |-> FALSE], f)
  IN IF s.err THEN s
     ELSE IF f = "refund" THEN [s EXCEPT !.err = TRUE, !.hit = TRUE]
     ELSE [s EXCEPT !.db = SyncShopifyRefunds(s.db, db.mappings[m].inst, o, m, <<refund>>,
                                              "none")]

\* the answers of the remote: the GET of the order refused (lines 1003-1004),
\* the POST of the refund refused (1098-1099), the refund created
RefundAnswers == {"get refused", "post refused", "created"}

\* process_refund_in_shopify on the mapping m of an order the remote knows.
\* Every exception raised after the POST is caught at line 1101 and raised
\* again as a UserError, and the caller's transaction is rolled back; events
\* counts the refunds the remote has created.
ProcessRefundOf(PS, RS, FS) ==
  /\ ~Running
  /\ \E m \in 1..Len(mappings), answer \in RefundAnswers :
       /\ mappings[m].sid # 0
       /\ IF answer # "created"
            THEN /\ issued' = [NoIssue EXCEPT !.m = m, !.result = "error"]
                 /\ UNCHANGED <<orders, mappings, moves, rmaps, products, partners, events>>
            ELSE /\ events < MaxEvents
                 /\ events' = events + 1
                 /\ \E p \in PS[mappings[m].sid], refund \in RS, full \in BOOLEAN, f \in FS :
                      \E s \in {IssueRefund(Db, m, p, refund, full, f)} :
                        /\ f = "none" \/ s.hit
                        /\ issued' = [m |-> m, remote |-> TRUE, full |-> full, f |-> f,
                                      result |-> IF s.err THEN "error" ELSE "ok"]
                        /\ IF s.err
                             THEN UNCHANGED <<orders, mappings, moves, rmaps, products, partners>>
                             ELSE SetDb(s.db)
  /\ UNCHANGED <<jobs, run, rejected, catalog, txs>>

\* the orders of the remote where refunds are issued: an open order and a
\* cancelled one (the import leaves the latter without an invoice)
PayloadsIssue(id) ==
  {Payload(id, TRUE, <<ItemA>>, <<>>, 0, FALSE, <<>>),
   Payload(id, TRUE, <<ItemA>>, <<>>, 0, TRUE, <<>>)}

ProcessOrderIssue == ProcessOrderOf([id \in RemoteIds |-> PayloadsIssue(id)], {"none"})

ProcessRefundInShopify ==
  ProcessRefundOf([id \in RemoteIds |-> PayloadsIssue(id)], {RefundA, RefundB},
                  {"none", "invoice", "post", "refund"})

NextIssue ==
  \/ StartImport
  \/ FetchPage
  \/ ProcessOrderIssue
  \/ ProcessRefundInShopify

SpecIssue == Init /\ [][NextIssue]_vars

\* ------------------------------------------------------------------ properties
\* the step taken is one iteration of the loop over the page: the import of
\* the order run.page[run.idx] for instance run.inst
ImportStep == run.pc = "process" /\ run' # run

MappingsOf(maps, sid, inst) ==
  {k \in 1..Len(maps) : maps[k].sid = sid /\ maps[k].inst = inst}

OrdersWithRef(ords, id) == {k \in 1..Len(ords) : ords[k].ref = id}

C2_FallbackReusesOrder ==
  [][(/\ ImportStep
      /\ MappingsOf(mappings, run.page[run.idx], run.inst) = {}
      /\ OrdersWithRef(orders, run.page[run.idx]) # {})
       => /\ Len(orders') = Len(orders)
          /\ \E k \in MappingsOf(mappings', run.page[run.idx], run.inst) :
               mappings'[k].order \in OrdersWithRef(orders, run.page[run.idx])]_vars

\* the lines lines 653-738 derive from a payload whose prices parse
DerivedLines(p, prods) ==
  [i \in 1..Len(p.items) |->
     [prod |-> FindProduct(prods, p.items[i].name, ItemSku(p, i)), qty |-> p.items[i].qty,
      pu |-> p.items[i].price * Cent - (SumSeq(p.items[i].allocs) * Cent) \div p.items[i].qty]]
  \o [i \in 1..Len(p.ship) |-> [prod |-> ShippingProduct, qty |-> 1, pu |-> p.ship[i] * Cent]]
  \o (IF p.disc # 0 THEN <<[prod |-> DiscountProduct, qty |-> 1, pu |-> -(p.disc * Cent)]>> ELSE <<>>)

Parses(p) == \A i \in 1..Len(p.items) : p.items[i].price # BadPrice

LineSum(lines) == SumSeq([i \in 1..Len(lines) |-> lines[i].qty * lines[i].pu])

NotBalance(lines) == SelectSeq(lines, LAMBDA l : l.kind # "balance")

\* C6: the lines a reconciliation puts on the credit note sum (quantity x
\* unit price) to the refund amount within 0.01, and they include a
\* balancing line exactly when the other lines differ from the refund amount
\* by more than 0.01.
C6_RefundConservation ==
  \A k \in 1..Len(moves) :
    /\ Abs(LineSum(moves[k].vals) - moves[k].amount) <= Cent
    /\ (\E i \in 1..Len(moves[k].vals) : moves[k].vals[i].kind = "balance")
         <=> Abs(moves[k].amount - LineSum(NotBalance(moves[k].vals))) > Cent

\* a credit note of several lines that differ from the refund amount by
\* exactly 0.01: no balancing line
C6_Witness ==
  \E k \in 1..Len(moves) :
    /\ moves[k].amount - LineSum(moves[k].vals) \in {Cent, -Cent}
    /\ \A i \in 1..Len(moves[k].vals) : moves[k].vals[i].kind # "balance"
    /\ Len(moves[k].vals) >= 2

\* C7: the loop requests another page only after a full page, so it stops
\* at the first page shorter than the page size, empty or not; and every
\* import run terminates.
C7_FetchLoopStops ==
  /\ [](run.pc = "fetch" /\ run.requests > 0 => Len(run.page) = PageLimit)
  /\ (Running ~> ~Running)

\* a run that ended after a full page and a shorter, non-empty one
C7_Witness ==
  /\ run.pc = "done"
  /\ run.requests = 2
  /\ run.page # <<>>
  /\ Len(run.page) < PageLimit
  /\ run.processed = PageLimit + Len(run.page)

C9_HttpErrorFailsRun ==
  /\ [](run.resp.status \in HttpErrors =>
          /\ run.pc = "raised"
          /\ jobs[run.job] = "failed"
          /\ run.raised = <<<<"Exception during order import",
                               <<"Failed to import orders - HTTP", run.resp.status,
                                 run.resp.body>>>>>>)
  /\ [][run.pc = "raised" /\ run'.job = run.job => run' = run]_vars

\* the second page request of a run was answered 429
C9_Witness ==
  /\ run.resp = [status |-> 429, body |-> "throttled"]
  /\ run.requests = 2
  /\ run.processed = PageLimit
  /\ jobs[run.job] = "failed"

\* the state of the job records
JobsConsistent ==
  /\ Running => jobs[run.job] = "in_progress"
  /\ run.pc = "done" => jobs[run.job] = "done" /\ run.resp.status = 200
  /\ run.pc = "raised" => jobs[run.job] = "failed" /\ run.resp.status # 200
  /\ \A j \in 1..Len(jobs) : j # run.job => jobs[j] \in {"done", "failed"}

\* C10: a run creates one job record, in_progress; the record ends done or
\* failed and then stays so; failed only after a failed page request, done
\* whenever the loop ended normally, whatever the number of failed orders.
C10_JobLifecycle ==
  /\ []JobsConsistent
  /\ [][/\ Len(jobs') = Len(jobs) + (IF ~Running /\ run'.pc = "fetch" THEN 1 ELSE 0)
         /\ \A j \in 1..Len(jobs) :
              /\ jobs[j] # "in_progress" => jobs'[j] = jobs[j]
              /\ jobs'[j] # jobs[j] => j = run.job /\ run'.pc \in {"done", "raised"}]_vars

\* a run in which every order failed ended done
C10_Witness ==
  /\ run.pc = "done"
  /\ jobs[run.job] = "done"
  /\ run.total > PageLimit
  /\ run.errors = run.total

\* C4: an import leaves the lines of a local order of source 'odoo' as they
\* were.
C4_LocalLinesUnchanged ==
  [][(ImportStep /\ orders'[run'.last.o].src = "odoo")
       => orders'[run'.last.o].lines = orders[run'.last.o].lines]_vars
\* ------------------------------------------------------------------ C11
\* C11: no two order mappings have the same (external id, instance), and no
\* operation that creates mappings (import, its backfill for an order found
\* by reference, the pending mappings of an order entered in Odoo, export)
\* ever attempts to create a mapping whose key another mapping holds.
\* Violated: every pending mapping is created with the empty external id, so
\* the second sync-enabled order entered before the first is exported
\* attempts the key ('', instance) again and the constraint rejects it.
C11_NoDuplicateMapping ==
  /\ \A i, j \in 1..Len(mappings) :
       mappings[i].sid = mappings[j].sid /\ mappings[i].inst = mappings[j].inst => i = j
  /\ rejected = {}

\* ------------------------------------------------------------------ C12
\* C12: when the unique constraint rejects a mapping create during an
\* import, the import fetches the mapping that holds the key and updates it;
\* the violation does not reach the per-order handler and is not counted as
\* an error.  Violated: the order import has no such recovery (the product
\* import has), the rejected create lands in the per-order handler, which
\* counts it, and the mapping that holds the key is left as it was.
C12_ViolationRecovered ==
  [][ImportStep /\ rejected' # rejected =>
       /\ ~run'.last.err
       /\ run'.errors = run.errors
       /\ run'.errlogs = run.errlogs]_vars

\* ------------------------------------------------------------------ C13
\* C13: no export path (the batch export, the single-order entry point, the
\* manual action, the export cron) ever sends an order of source 'shopify'
\* to the remote: such an order is never marked exported, which the export
\* does when the remote has accepted the request.  Violated: the
\* single-order entry point export_single_order_to_shopify hands the order
\* over without looking at its source.
C13_ImportedNeverExported ==
  \A o \in 1..Len(orders) : orders[o].src = "shopify" => orders[o].exp # "exported"

\* ------------------------------------------------------------------ C14
\* C14: for every line item of price p, quantity q >= 1 and discount
\* allocations a_1..a_n, the order line the import creates has quantity q
\* and unit price p - (a_1 + ... + a_n) / q (stated without the division:
\* unit price * q = p * q - (a_1 + ... + a_n)).
C14_LineUnitPrice ==
  [][ImportStep /\ ~run'.last.err =>
       LET p == run'.last.p
           o == orders'[run'.last.o]
       IN \A i \in 1..Len(p.items) :
            (p.items[i].qty >= 1 /\ \A k \in 1..Len(p.items[i].allocs) :
                                      p.items[i].allocs[k] # BadPrice)
            => /\ o.lines[i].qty = p.items[i].qty
               /\ o.lines[i].pu * p.items[i].qty =
                    (p.items[i].price * p.items[i].qty - SumSeq(p.items[i].allocs)) * Cent]_vars

\* an import of price 10, quantity 2, allocations 1 and 2: unit price 8.5
C14_Witness ==
  /\ run.last.o # 0
  /\ ~run.last.err
  /\ run.last.p.items = <<[name |-> "A", sku |-> "A", qty |-> 2, price |-> 10, allocs |-> <<1, 2>>]>>
  /\ orders[run.last.o].lines[1].qty = 2
  /\ orders[run.last.o].lines[1].pu * 2 = 17 * Cent

\* ------------------------------------------------------------------ C15
\* C15: a line item without product mapping gets a placeholder product the
\* first time it is imported, and every later import (of that order or of
\* another) of a line item with the same name or the same SKU reuses that
\* product; whatever the number of imports, no two placeholders have the
\* same name or the same SKU.
C15_PlaceholderReused ==
  /\ [](\A i, j \in 1..Len(products) :
          i # j => products[i].name # products[j].name /\ products[i].sku # products[j].sku)
  /\ [][ImportStep /\ ~run'.last.err =>
          LET p == run'.last.p
              o == orders'[run'.last.o]
          IN \A i \in 1..Len(p.items) :
               LET old == FindProduct(products, p.items[i].name, ItemSku(p, i))
                   prod == o.lines[i].prod
               IN /\ prod \in 1..Len(products')
                  /\ products'[prod].name = p.items[i].name
                       \/ products'[prod].sku = ItemSku(p, i)
                  /\ old # 0
                       => /\ products'[old] = products[old]
                          /\ prod <= Len(products) => prod = old
                          /\ prod > Len(products)
                               => \E j \in 1..(i - 1) : o.lines[j].prod = prod]_vars

\* the import of a second order has reused, by its name, the placeholder the
\* first order's import created for another SKU
C15_Witness ==
  /\ Len(orders) = 2
  /\ run.last.o = 2
  /\ ~run.last.err
  /\ Len(orders[1].lines) >= 1
  /\ Len(orders[2].lines) >= 1
  /\ orders[1].lines[1].prod = orders[2].lines[1].prod
  /\ products[orders[2].lines[1].prod].name = run.last.p.items[1].name
  /\ products[orders[2].lines[1].prod].sku # ItemSku(run.last.p, 1)

\* ------------------------------------------------------------------ C16
PaymentStatuses ==
  {"pending", "authorized", "partially_paid", "paid", "partially_refunded", "refunded", "voided"}

FulfillmentStatuses == {"unfulfilled", "partial", "fulfilled", "restocked"}

\* the stored state without the status fields of the orders and of the
\* mappings
WithoutStatus(db) ==
  [db EXCEPT !.orders = [k \in 1..Len(@) |-> [@[k] EXCEPT !.status = NoStatus]],
             !.mappings = [k \in 1..Len(@) |-> [@[k] EXCEPT !.fin = "", !.ful = ""]]]

\* C16: whatever the payload, the projected payment status is one of
\* pending, authorized, partially_paid, paid, partially_refunded, refunded,
\* voided and the projected fulfillment status one of unfulfilled, partial,
\* fulfilled, restocked; a remote value that is missing or not recognised
\* gives pending, respectively unfulfilled; and the projection changes no
\* stored state: but for the status fields the import writes on the order
\* and on its mapping, the stored state after an import that succeeds is the
\* one the import of the payload without status values leaves.
C16_StatusProjection ==
  [][ImportStep /\ run'.last.o # 0 =>
       LET p == run'.last.p
           st == run'.last.status
           known == {e[1] : e \in FinancialMap}
           knownF == {e[1] : e \in FulfillmentMap}
       IN /\ st.payment \in PaymentStatuses
          /\ st.fulfillment \in FulfillmentStatuses
          /\ Underscored(p.fin) \notin known => st.payment = "pending"
          /\ Underscored(p.ful) \notin knownF => st.fulfillment = "unfulfilled"
          /\ ~run'.last.err =>
               WithoutStatus(Db') =
                 WithoutStatus(ImportOne(Db, run.inst,
                                         WithStatus(p, <<>>, <<>>, p.cat, p.noship), "none").db)]_vars

\* an import has projected an unknown financial status and an unknown
\* fulfillment status
C16_Witness ==
  /\ run.last.o # 0
  /\ run.last.p.fin = <<"chargeback">>
  /\ run.last.p.ful = <<"shipped">>
  /\ run.last.status.payment = "pending"
  /\ run.last.status.fulfillment = "unfulfilled"

\* ------------------------------------------------------------------ C17
\* C17 as stated: the delivery category is 'none' if the payload says the
\* order requires no shipping; otherwise 'shipping' if it has a shipping
\* line; otherwise the category the payload gives; otherwise 'shipping'.
C17_DeliveryPrecedence ==
  [][ImportStep /\ ~run'.last.err =>
       LET p == run'.last.p
       IN run'.last.status.category =
            (IF p.noship THEN "none"
             ELSE IF p.ship # <<>> THEN "shipping"
             ELSE IF p.cat # <<>> THEN MapGet(DeliveryMap, p.cat, "shipping")
             ELSE "shipping")]_vars

\* C17 (amended): the delivery category is the category the payload gives
\* when it gives one ('shipping' when that is none of shipping, pickup,
\* local_delivery, none); otherwise 'shipping' if the payload has a shipping
\* line; otherwise 'none' if the payload says the order requires no
\* shipping; otherwise 'shipping'.
C17_DeliveryPrecedenceAmended ==
  [][ImportStep /\ ~run'.last.err =>
       LET p == run'.last.p
           known == {e[2] : e \in {d \in DeliveryMap : d[1] = p.cat}}
       IN run'.last.status.category =
            (IF p.cat # <<>> THEN (IF known # {} THEN CHOOSE c \in known : TRUE ELSE "shipping")
             ELSE IF p.ship # <<>> THEN "shipping"
             ELSE IF p.noship THEN "none"
             ELSE "shipping")]_vars

\* an order that requires no shipping but has a shipping line and the
\* category pickup has been imported as pickup
C17_Witness ==
  /\ run.last.o # 0
  /\ ~run.last.err
  /\ run.last.p.noship
  /\ run.last.p.ship # <<>>
  /\ run.last.p.cat = <<"pickup">>
  /\ run.last.status.category = "pickup"

\* ------------------------------------------------------------------ C18
\* the order an import step has worked on, as it was before the step (a
\* draft without invoice when the step created it)
OrderBefore ==
  IF run'.last.o <= Len(orders) THEN orders[run'.last.o]
  ELSE [st |-> "draft", inv |-> NoInvoice]

\* C18 as stated: after an import of a payload without cancellation
\* timestamp that completes without error the order is confirmed and has
\* exactly one invoice that is not cancelled, which is posted; the order is
\* confirmed before the invoice is created; no import creates a second
\* invoice.
C18_ConfirmedAndInvoiced ==
  [][ImportStep /\ ~run'.last.err /\ ~run'.last.p.cancelled =>
       LET o == orders'[run'.last.o]
       IN /\ o.st = "sale"
          /\ o.inv.n = 1
          /\ o.inv.st = "posted"]_vars

\* C18 (amended): after an import of a payload without cancellation
\* timestamp that completes without error the order has exactly one invoice
\* that is not cancelled, which is posted, and the order is confirmed
\* unless it was cancelled before the import, in which case it stays
\* cancelled; an import that creates the invoice has confirmed the order
\* first (the order is confirmed even when the creation of the invoice
\* fails); no import creates a second invoice.
C18_ConfirmedAndInvoicedAmended ==
  [][ImportStep /\ run'.last.o # 0 /\ ~run'.last.p.cancelled =>
       LET o == orders'[run'.last.o]
       IN /\ ~run'.last.err =>
               /\ o.inv.n = 1
               /\ o.inv.st = "posted"
               /\ o.st = (IF OrderBefore.st = "cancel" THEN "cancel" ELSE "sale")
          /\ o.inv.n > OrderBefore.inv.n => OrderBefore.inv.n = 0 /\ o.st # "draft"
          /\ run'.last.f = "invoice" => o.inv.n = 0 /\ o.st # "draft"
          /\ o.inv.n <= 1]_vars

\* the second import of an order has left it confirmed with the one invoice
\* the first import created
C18_Witness ==
  /\ Len(jobs) = 2
  /\ run.last.existing # 0
  /\ ~run.last.err
  /\ ~run.last.p.cancelled
  /\ orders[run.last.o].st = "sale"
  /\ orders[run.last.o].inv.n = 1
  /\ orders[run.last.o].inv.st = "posted"

\* ------------------------------------------------------------------ C19
\* C19: the import of a payload with a cancellation timestamp cancels the
\* order unless it is cancelled already, creates and posts no invoice in
\* that pass, and when the cancel operation fails the failure is only
\* logged: the order is left as it was, its mapping is written or created
\* all the same, and no error is counted.
C19_CancelledPayload ==
  [][ImportStep /\ run'.last.p.cancelled /\ run'.last.f \in {"none", "cancel"} =>
       LET o == orders'[run'.last.o]
       IN /\ run'.last.f = "none" => o.st = "cancel"
          /\ run'.last.f = "cancel" => o.st = OrderBefore.st /\ OrderBefore.st # "cancel"
          /\ o.inv = OrderBefore.inv
          /\ ~run'.last.err
          /\ run'.errors = run.errors
          /\ \E k \in Visible(mappings') :
               /\ mappings'[k].sid = run'.last.p.id
               /\ mappings'[k].inst = run.inst
               /\ mappings'[k].order = run'.last.o
               /\ mappings'[k].sync = "synced"]_vars

\* the cancel of a confirmed, invoiced order has failed: the order is still
\* confirmed, its mapping is written and no error is counted
C19_Witness ==
  /\ run.last.p.cancelled
  /\ run.last.f = "cancel"
  /\ run.last.existing # 0
  /\ ~run.last.err
  /\ run.errors = 0
  /\ orders[run.last.o].st = "sale"
  /\ orders[run.last.o].inv.n = 1
  /\ mappings[run.last.existing].sync = "synced"

\* C20: the first request of a run carries no since_id and every later one
\* carries the identifier of the last order of the page before it; with a
\* remote that answers the orders above the cursor in increasing order, the
\* orders a run has processed are at every moment the remote's first ones,
\* each once and in order, and all of them when the run is done.
C20_CursorContract ==
  /\ [][run.pc = "fetch" /\ run'.requests = run.requests + 1
          => run'.since_id = IF run.requests = 0 THEN 0
                             ELSE run.page[Len(run.page)]]_vars
  /\ [](run.seen = [i \in 1..Len(run.seen) |-> i])
  /\ [](run.pc = "done" => Len(run.seen) = run.n)

\* a finished run of two requests, the second with the cursor on the last
\* order of the first page, that has processed every remote order
C20_Witness ==
  /\ run.pc = "done"
  /\ run.n = PageLimit + 1
  /\ run.requests = 2
  /\ run.since_id = PageLimit
  /\ run.seen = [i \in 1..(PageLimit + 1) |-> i]

\* the quantity of the line item called name that the refunds of a payload
\* give back (refund line items and line items are matched on the product
\* they name)
RECURSIVE RefundedQtyOf(_, _)
RefundedQtyOf(items, name) ==
  IF items = <<>> THEN 0
  ELSE (IF Head(items).name = name THEN Abs(Head(items).qty) ELSE 0)
       + RefundedQtyOf(Tail(items), name)

RECURSIVE RefundedQty(_, _)
RefundedQty(refunds, name) ==
  IF refunds = <<>> THEN 0
  ELSE RefundedQtyOf(Head(refunds).items, name) + RefundedQty(Tail(refunds), name)

FullyRefunded(p, i) ==
  /\ p.items[i].qty > 0
  /\ RefundedQty(p.refunds, p.items[i].name) >= p.items[i].qty

\* C21: after an import without error, the imported order has no line for
\* the product of a line item that the payload's refunds give back in full.
C21_RefundedItemSkipped ==
  [][(ImportStep /\ ~run'.last.err /\ orders'[run'.last.o].src = "shopify")
       => \A i \in 1..Len(run'.last.p.items) :
            FullyRefunded(run'.last.p, i)
              => \A l \in 1..Len(orders'[run'.last.o].lines) :
                   orders'[run'.last.o].lines[l].prod
                     # FindProduct(products', run'.last.p.items[i].name,
                                   ItemSku(run'.last.p, i))]_vars

\* the lines of an imported order behind those of its line items
SynthesizedLines(o, p) == SubSeq(o.lines, Len(p.items) + 1, Len(o.lines))

\* C22: after an import without error, the lines of the imported order that
\* follow those of the line items are one shipping line for each shipping
\* entry of non-zero price, in order, then one discount line of unit price
\* minus the aggregate discount when that discount is not zero, and nothing
\* else.
C22_SynthesizedLines ==
  [][(ImportStep /\ ~run'.last.err /\ orders'[run'.last.o].src = "shopify")
       => LET p == run'.last.p
              nz == SelectSeq(p.ship, LAMBDA x : x # 0)
          IN SynthesizedLines(orders'[run'.last.o], p)
               = [i \in 1..Len(nz) |-> [prod |-> ShippingProduct, qty |-> 1, pu |-> nz[i] * Cent]]
                 \o (IF p.disc # 0
                       THEN <<[prod |-> DiscountProduct, qty |-> 1, pu |-> -(p.disc * Cent)]>>
                       ELSE <<>>)]_vars

\* the lines a reconciliation built from refund line items
ItemVals(mv) == SelectSeq(mv.vals, LAMBDA l : l.kind = "item")

\* what was left of invoice line i when the k-th of these lines was built
RemainingAt(mv, k, i) ==
  mv.pool0[i]
    - SumSeq([j \in 1..(k - 1) |->
                IF ItemVals(mv)[j].inv = i THEN ItemVals(mv)[j].qty ELSE 0])

Covers(mv, k, i) ==
  /\ orders[mv.origin].inv.lines[i].prod = ItemVals(mv)[k].prod
  /\ RemainingAt(mv, k, i) >= ItemVals(mv)[k].qty

\* C23: a refund line of quantity q is matched to the first invoice line of
\* its product of which at least q is left, and to none when there is no
\* such line; what is left of the matched line decreases by q; what is left
\* of an invoice line is never negative and never more than its quantity, so
\* that the refunds of a call never take more of an invoice line than it has.
C23_PoolNeverOverdrawn ==
  \A m \in 1..Len(moves) :
    LET mv == moves[m]
        n == Len(mv.pool0)
    IN /\ Len(mv.pool) = n
       /\ \A i \in 1..n :
            /\ mv.pool[i] >= 0
            /\ mv.pool0[i] <= orders[mv.origin].inv.lines[i].qty
            /\ mv.pool[i] = RemainingAt(mv, Len(ItemVals(mv)) + 1, i)
       /\ \A k \in 1..Len(ItemVals(mv)) :
            LET c == ItemVals(mv)[k].inv
            IN /\ c \in 0..n
               /\ c # 0 => Covers(mv, k, c)
               /\ \A i \in 1..n : Covers(mv, k, i) => (c # 0 /\ c <= i)

\* a call whose second refund has taken the last unit of an invoice line of
\* quantity 2, and whose third refund of the same product found none left
C23_Witness ==
  \E m1, m2 \in 1..Len(moves) :
    /\ moves[m1].origin = moves[m2].origin
    /\ orders[moves[m1].origin].inv.lines[1].qty = 2
    /\ moves[m1].pool0 = <<1>>
    /\ moves[m1].pool = <<0>>
    /\ moves[m2].pool0 = <<0>>
    /\ ItemVals(moves[m2])[1].inv = 0

\* C24: a reconciliation that writes an existing credit note which is posted
\* resets it to draft, then writes it (in state draft), then posts it, in
\* that order; and every credit note a completed reconciliation has written
\* or created is posted.
C24_RewrittenAsDraft ==
  /\ [][\A k \in 1..Len(moves) :
          (moves[k].st = "posted" /\ moves'[k] # moves[k])
            => /\ Len(moves'[k].ops) >= 3
               /\ SubSeq(moves'[k].ops, 1, 3) = <<"button_draft", "write", "action_post">>
               /\ moves'[k].wst = "draft"]_vars
  /\ [](\A k \in 1..Len(moves) : moves[k].st = "posted" /\ moves[k].wst # "posted")

\* a credit note of two reconciliations, the second of which has reset,
\* rewritten and posted it
C24_Witness ==
  \E k \in 1..Len(moves) :
    /\ Len(moves[k].lines) > Len(moves[k].vals)
    /\ moves[k].ops[1] = "button_draft"
    /\ moves[k].st = "posted"

\* C25: a reconciliation of the refund payload a credit note was last
\* written from leaves the credit note with the lines and the total it had.
C25_ReconcileIdempotent ==
  [][\A k \in 1..Len(moves) :
       (moves'[k].ops # <<>> /\ moves'[k].ops[1] # "create"
          /\ moves'[k].payload = moves[k].payload
          /\ orders'[moves[k].origin].inv = orders[moves[k].origin].inv)
         => /\ moves'[k].lines = moves[k].lines
            /\ AmountTotal(moves'[k].lines) = AmountTotal(moves[k].lines)]_vars

RefundMappingsOf(rm, rid, inst) == {k \in 1..Len(rm) : rm[k].rid = rid /\ rm[k].inst = inst}

\* C26: an import during which reconcile() fails is not counted as an error
\* and does not reach the per-order handler; each refund of the payload that
\* has an id has its refund mapping record, whose credit note is posted and
\* written from that refund, the refunds behind the first included.
C26_ReconcileFailureLogged ==
  [][(ImportStep /\ run'.last.f = "reconcile")
       => /\ ~run'.last.err
          /\ run'.errors = run.errors
          /\ run'.errlogs = run.errlogs
          /\ \A i \in 1..Len(run'.last.p.refunds) :
               LET refund == run'.last.p.refunds[i]
                   ks == RefundMappingsOf(rmaps', refund.id, run.inst)
               IN refund.id # 0
                    => /\ Cardinality(ks) = 1
                       /\ \A k \in ks :
                            /\ rmaps'[k].st = "posted"
                            /\ moves'[rmaps'[k].move].st = "posted"
                            /\ moves'[rmaps'[k].move].rec = "failed"
                            /\ moves'[rmaps'[k].move].payload = refund]_vars

\* an import of two refunds whose reconcile() calls have both failed
C26_Witness ==
  /\ run.last.f = "reconcile"
  /\ ~run.last.err
  /\ Len(run.last.p.refunds) = 3
  /\ Len(rmaps) = 2
  /\ \A k \in 1..Len(rmaps) : moves[rmaps[k].move].rec = "failed" /\ rmaps[k].st = "posted"

\* C27: every refund mapping record references one credit note, the only
\* one of its refund, and carries that credit note's state and the absolute
\* value of its total, after the first reconciliation of the refund and
\* after every later one.
C27_MappingAgreesWithMove ==
  \A k \in 1..Len(rmaps) :
    /\ rmaps[k].move \in 1..Len(moves)
    /\ {j \in 1..Len(moves) : moves[j].rid = rmaps[k].rid /\ moves[j].inst = rmaps[k].inst}
         = {rmaps[k].move}
    /\ rmaps[k].st = moves[rmaps[k].move].st
    /\ rmaps[k].amount = Abs(AmountTotal(moves[rmaps[k].move].lines))

\* a refund reconciled twice, whose record carries the total of the credit
\* note as the second reconciliation left it
C27_Witness ==
  \E k \in 1..Len(rmaps) :
    /\ moves[rmaps[k].move].ops[1] = "button_draft"
    /\ rmaps[k].amount = Abs(AmountTotal(moves[rmaps[k].move].lines))
    /\ rmaps[k].amount > moves[rmaps[k].move].amount

\* a refund from whose items, shipping and adjustments no line is constructed
NothingConstructed(refund) ==
  /\ \A i \in 1..Len(refund.items) : refund.items[i].qty = 0
  /\ refund.ship = 0
  /\ \A i \in 1..Len(refund.adj) : refund.adj[i] = 0

\* C28: the amount of a refund is the absolute value of the sum of its
\* transaction amounts, or, when that is zero, the sum of the absolute
\* subtotals of its refund line items; a credit note written from a refund
\* of which no line was constructed has exactly one line, the catch-all line
\* of quantity 1 priced at the amount, no other credit note has a catch-all
\* line, and every credit note has at least one line.
C28_AmountAndCatchAll ==
  \A k \in 1..Len(moves) :
    LET refund == moves[k].payload
        tx == Abs(SumSeq(refund.tx)) * Cent
        amount == IF tx # 0 THEN tx
                  ELSE SumSeq([i \in 1..Len(refund.items) |-> Abs(refund.items[i].sub) * Cent])
    IN /\ moves[k].amount = amount
       /\ Len(moves[k].vals) >= 1
       /\ Len(moves[k].lines) >= 1
       /\ NothingConstructed(refund)
            => /\ Len(moves[k].vals) = 1
               /\ moves[k].vals[1].kind = "catchall"
               /\ moves[k].vals[1].prod = RefundProduct
               /\ moves[k].vals[1].qty = 1
               /\ moves[k].vals[1].pu = amount
       /\ ~NothingConstructed(refund)
            => \A i \in 1..Len(moves[k].vals) : moves[k].vals[i].kind # "catchall"

\* a credit note whose single line is the catch-all line, priced at the sum
\* of the absolute subtotals because the transactions sum to zero
C28_Witness ==
  \E k \in 1..Len(moves) :
    /\ moves[k].payload.tx = <<5, -5>>
    /\ moves[k].payload.items # <<>>
    /\ moves[k].amount = 5 * Cent
    /\ Len(moves[k].vals) = 1
    /\ moves[k].vals[1].kind = "catchall"
    /\ moves[k].vals[1].pu = 5 * Cent

\* the credit notes the step has created or written
Written(k) == k > Len(moves) \/ moves'[k] # moves[k]

\* C29: a reconciliation sets the order's invoice as reversal target of the
\* credit note it creates or writes when that invoice is posted, and sets no
\* reversal target when the invoice is a draft or cancelled or there is none.
C29_ReversalOnlyPosted ==
  [][\A k \in 1..Len(moves') :
       Written(k)
         => LET o == moves'[k].origin
                before == IF k <= Len(moves) THEN moves[k].rev ELSE 0
            IN IF orders'[o].inv.st = "posted"
                 THEN moves'[k].rev = o
                 ELSE moves'[k].rev = before]_vars

\* C30: after an import, each line a credit note got from a refund line
\* item carries the product of the order line built from the same line item
\* (same name and same 'sku') of the payload.
C30_SameProduct ==
  [][(ImportStep /\ ~run'.last.err /\ orders'[run'.last.o].src = "shopify")
       => LET p == run'.last.p
          IN \A r \in 1..Len(p.refunds) :
               \A k \in RefundMappingsOf(rmaps', p.refunds[r].id, run.inst) :
                 \A j \in 1..Len(p.refunds[r].items), i \in 1..Len(p.items) :
                   (p.items[i].name = p.refunds[r].items[j].name
                      /\ p.items[i].sku = p.refunds[r].items[j].sku)
                     => moves'[rmaps'[k].move].vals[j].prod
                          = orders'[run'.last.o].lines[i].prod]_vars

\* ------------------------------------------------------------------ C31
\* the names of seq in the order of their first occurrence
RECURSIVE FirstOccurrences(_)
FirstOccurrences(seq) ==
  IF seq = <<>> THEN <<>>
  ELSE LET init == FirstOccurrences(SubSeq(seq, 1, Len(seq) - 1))
           x == seq[Len(seq)]
       IN IF \E i \in 1..Len(init) : init[i] = x THEN init ELSE Append(init, x)

\* C31 as stated: the projected payment method is the comma-joined list of
\* the declared gateway names followed by the transaction gateway names in
\* which no name occurs twice, also when the declared list repeats a name.
C31_PaymentMethodDeduplicated ==
  [][ImportStep /\ ~run'.last.err =>
       LET p == run'.last.p
           names == SelectSeq(p.gateways \o p.txgw, LAMBDA g : g # "")
       IN run'.last.status.method = JoinNames(FirstOccurrences(names))]_vars

\* ------------------------------------------------------------------ C32
\* C32 as stated: whatever the financial and fulfillment status of the
\* payload, a value outside the known vocabulary included, the import of the
\* order does not fail on it, and the statuses stored on the order's mapping
\* are members of the closed enums.
C32_MappingStatusClosed ==
  [][ImportStep =>
       LET p == run'.last.p
           unknown == \/ p.fin # <<>> /\ p.fin \notin {e[1] : e \in FinancialMap}
                      \/ p.ful # <<>> /\ p.ful \notin {e[1] : e \in FulfillmentMap}
       IN /\ unknown => ~run'.last.err
          /\ ~run'.last.err =>
               \A k \in 1..Len(mappings') :
                 mappings'[k].sid = p.id /\ mappings'[k].inst = run.inst
                   => /\ mappings'[k].fin \in PaymentStatuses
                      /\ mappings'[k].ful \in FulfillmentStatuses]_vars

\* ------------------------------------------------------------------ C33
\* the call of import_products_from_shopify that got an answer
ProductImportStep == pimport'.n = pimport.n + 1 /\ pimport'.status = 200

\* the position in the answer of the payload of product pid that the call
\* imported: it has a variant and its processing did not raise (0: none)
ImportedPayload(call, pid) ==
  FirstIdx({i \in 1..Len(call.payloads) :
              /\ call.payloads[i].id = pid
              /\ call.payloads[i].variants # <<>>
              /\ call.fails[i] \notin 1..Len(call.payloads[i].variants)})

\* the position of a payload of product pid whose processing raised
RaisedPayload(call, pid) ==
  FirstIdx({i \in 1..Len(call.payloads) :
              /\ call.payloads[i].id = pid
              /\ call.fails[i] \in 1..Len(call.payloads[i].variants)})

NameFromParts(p) ==
  LET parts == SelectSeq(<<p.first, p.last>>, LAMBDA x : x \notin {"", NullName})
  IN IF parts = <<>> THEN <<"Unknown Customer">>
     ELSE IF Len(parts) = 1 THEN parts
     ELSE <<parts[1], " ", parts[2]>>

\* C34 as stated: an imported order with a non-empty email is attached to a
\* customer with that email, the one every earlier order with that email is
\* attached to; a customer is created only when none has the email, and then
\* under the first and last name of the billing address, or as 'Unknown
\* Customer' when both are absent.
C34_OneCustomerPerEmail ==
  [][ImportStep /\ run'.last.o > Len(orders) =>
       LET p == run'.last.p
           c == orders'[run'.last.o].partner
       IN /\ c \in 1..Len(partners')
          /\ \A k \in 1..Len(partners) : partners'[k] = partners[k]
          /\ p.email # ""
               => /\ partners'[c].email = p.email
                  /\ (\E k \in 1..Len(partners) : partners[k].email = p.email)
                       => Len(partners') = Len(partners)
                  /\ \A o \in 1..Len(orders) :
                       /\ orders[o].src = "shopify"
                       /\ partners[orders[o].partner].email = p.email
                       => orders[o].partner = c
          /\ Len(partners') > Len(partners)
               => /\ c = Len(partners')
                  /\ partners'[c].name = NameFromParts(p)]_vars

\* ------------------------------------------------------------------ C35
\* C35 as stated: when a run is complete every fetched order has been counted
\* in exactly one of the counters, so that created + updated + errors is the
\* number of orders fetched.
C35_CountersAddUp ==
  run.pc = "done" => run.created + run.updated + run.errors = run.total

\* ------------------------------------------------------------------ C36
\* C36 as stated: an order that a run counts as an error is not left with a
\* mapping which that run has marked synced: after the failed import of a
\* payload, a synced mapping of the external order was there, and synced,
\* before.
C36_SyncedOnlyOnSuccess ==
  [][ImportStep /\ run'.last.err =>
       \A k \in 1..Len(mappings') :
         /\ mappings'[k].sid = run'.last.p.id
         /\ mappings'[k].inst = run.inst
         /\ mappings'[k].sync = "synced"
         => k <= Len(mappings) /\ mappings[k].sync = "synced"]_vars

\* ------------------------------------------------------------------ C37
\* C37 as stated: the import of an order marks no order for export: no
\* order's export status becomes 'pending' and no mapping goes back to
\* 'pending' in an iteration of the import, whether the order was imported
\* from the remote or created in Odoo and found through its mapping.
C37_ImportMarksNothing ==
  [][ImportStep =>
       /\ \A o \in 1..Len(orders) :
            orders'[o].exp = "pending" => orders[o].exp = "pending"
       /\ \A k \in 1..Len(mappings) :
            mappings'[k].sync = "pending" => mappings[k].sync = "pending"]_vars

\* ------------------------------------------------------------------ C38
\* C38: whatever orders are entered in Odoo, with Shopify sync or with the
\* sync enabled later, confirmed, exported and imported, no order has two
\* mappings for one instance.
C38_OneMappingPerOrder ==
  \A k1, k2 \in 1..Len(mappings) :
    mappings[k1].order = mappings[k2].order /\ mappings[k1].inst = mappings[k2].inst
      => k1 = k2

\* an order entered in Odoo whose sync was enabled by a write has been
\* exported, and an import has then written its mapping
C38_Witness ==
  \E k \in 1..Len(mappings) :
    /\ mappings[k].sid # 0
    /\ mappings[k].fin # ""
    /\ orders[mappings[k].order].src = "odoo"
    /\ orders[mappings[k].order].sync
    /\ mappings[k].order = 1
    /\ \E o \in 1..Len(orders) : orders[o].src = "odoo" /\ ~orders[o].sync

\* C39: when two import jobs for the same instance run with their per-order
\* steps interleaved, no external order ends up with two local orders: the
\* database never holds two sale orders with the reference of one external
\* order
C39_NoSecondLocalOrder ==
  \A id \in RemoteIds : Cardinality(OrdersWithRef(orders, id)) <= 1

\* C40: issuing a refund to the remote for a mapped order ends in an error
\* only if the remote created no refund: when the remote accepted the
\* refund, the call returns success with the mapping's financial status
\* updated and the mapping synced
C40_ErrorOnlyWithoutRemoteRefund ==
  /\ issued.result = "error" => ~issued.remote
  /\ issued.remote =>
       /\ mappings[issued.m].fin = (IF issued.full THEN "refunded" ELSE "partially_refunded")
       /\ mappings[issued.m].sync = "synced"

====
